---- MODULE Spec2Model ----
(***************************************************************************)
(* Verification model of the dice-notation interpreter:                    *)
(*   src/js/parser.js  (tokenize, Parser, parse)                           *)
(*   src/js/roller.js  (randomInt, rollDiceGroup, applyKeep, applyDrop,    *)
(*                      calculateSubtotal, executeRoll)                    *)
(* and of the application around it:                                       *)
(*   src/js/main.js (roll, setRollingState, storage, AudioManager),        *)
(*   dice-buttons.js, input-form.js, presets.js,                           *)
(*   src/unnamed/part_007 (history)                                        *)
(* A notation string is a sequence of one-character strings.  A value that *)
(* JavaScript represents as null is the empty sequence None, a present     *)
(* value x is the one-element sequence Some(x).                            *)
(***************************************************************************)
EXTENDS Integers, Sequences, FiniteSets, TLC

VARIABLES phase, input, parsed, seed, result, stages, calls, app, last, added,
          audio, tally

vars == <<phase, input, parsed, seed, result, stages, calls, app, last, added,
          audio, tally>>

None == <<>>
Some(x) == <<x>>

----------------------------------------------------------------------------
(* Bounds of the model                                                     *)

MaxFrags == 4
MaxTerms == 3
MaxCount == 3
MaxSides == 3
MaxWord == 2
SeedLen == 3
MaxCalls == 3
MaxRolls == 2
MaxAdds == 52
MaxPresets == 2
MaxFaces == 7
WordBits == 4
MaxSounds == 3
MaxMods == 3

----------------------------------------------------------------------------
(* parser.js: token types                                                  *)

TokenType == [NUMBER |-> "NUMBER", D |-> "D", PLUS |-> "PLUS", MINUS |-> "MINUS",
              KEEP_HIGH |-> "KEEP_HIGH", KEEP_LOW |-> "KEEP_LOW",
              DROP_HIGH |-> "DROP_HIGH", DROP_LOW |-> "DROP_LOW",
              EXPLODE |-> "EXPLODE", REROLL |-> "REROLL",
              PERCENT |-> "PERCENT", EOF |-> "EOF"]

Token(type, value) == [type |-> type, value |-> value]

Digits == <<"0", "1", "2", "3", "4", "5", "6", "7", "8", "9">>

IsDigit(c) == \E i \in 1..10 : Digits[i] = c

DigitValue(c) == (CHOOSE i \in 1..10 : Digits[i] = c) - 1

(* String.prototype.toLowerCase on one character of the model's alphabet.  *)
toLowerCase(c) ==
    CASE c = "D" -> "d"
      [] c = "K" -> "k"
      [] c = "H" -> "h"
      [] c = "L" -> "l"
      [] c = "R" -> "r"
      [] c = "X" -> "x"
      [] OTHER -> c

IsSpace(c) == c \in {" ", "\t", "\n"}

(* normalize that removes the white space and keeps the letter case.       *)
normalizeKeepingCase(s) == SelectSeq(s, LAMBDA c : ~IsSpace(c))

(* input.toLowerCase().replace(/\s+/g, '')                                 *)
RECURSIVE normalize(_)
normalize(s) ==
    IF s = <<>> THEN <<>>
    ELSE IF IsSpace(Head(s)) THEN normalize(Tail(s))
    ELSE <<toLowerCase(Head(s))>> \o normalize(Tail(s))

(* String.prototype.trim                                                   *)
RECURSIVE trimStart(_)
trimStart(s) ==
    IF s # <<>> /\ IsSpace(Head(s)) THEN trimStart(Tail(s)) ELSE s

RECURSIVE trimEnd(_)
trimEnd(s) ==
    IF s # <<>> /\ IsSpace(s[Len(s)]) THEN trimEnd(SubSeq(s, 1, Len(s) - 1)) ELSE s

trim(s) == trimEnd(trimStart(s))

(* The inner digit loop of tokenize followed by parseInt(numStr, 10):      *)
(* pos is zero-based, acc the value of the digits read so far.             *)
RECURSIVE scanNumber(_, _, _)
scanNumber(norm, pos, acc) ==
    IF pos < Len(norm) /\ IsDigit(norm[pos + 1])
    THEN scanNumber(norm, pos + 1, 10 * acc + DigitValue(norm[pos + 1]))
    ELSE [pos |-> pos, value |-> acc]

TwoCharToken(two) ==
    CASE two = <<"k", "h">> -> Some(Token(TokenType.KEEP_HIGH, "kh"))
      [] two = <<"k", "l">> -> Some(Token(TokenType.KEEP_LOW, "kl"))
      [] two = <<"d", "h">> -> Some(Token(TokenType.DROP_HIGH, "dh"))
      [] two = <<"d", "l">> -> Some(Token(TokenType.DROP_LOW, "dl"))
      [] OTHER -> None

SingleCharToken(c) ==
    CASE c = "d" -> Some(Token(TokenType.D, "d"))
      [] c = "+" -> Some(Token(TokenType.PLUS, "+"))
      [] c = "-" -> Some(Token(TokenType.MINUS, "-"))
      [] c = "!" -> Some(Token(TokenType.EXPLODE, "!"))
      [] c = "r" -> Some(Token(TokenType.REROLL, "r"))
      [] c = "%" -> Some(Token(TokenType.PERCENT, "%"))
      [] OTHER -> None

(* The while loop of tokenize over the normalized string.                  *)
RECURSIVE scan(_, _, _)
scan(norm, pos, tokens) ==
    IF pos >= Len(norm)
    THEN [ok |-> TRUE, tokens |-> Append(tokens, Token(TokenType.EOF, "null")),
          char |-> "", pos |-> pos]
    ELSE LET char == norm[pos + 1] IN
         IF IsDigit(char)
         THEN LET n == scanNumber(norm, pos, 0) IN
              scan(norm, n.pos, Append(tokens, [type |-> TokenType.NUMBER, value |-> n.value]))
         ELSE LET two == IF pos + 1 < Len(norm)
                         THEN TwoCharToken(SubSeq(norm, pos + 1, pos + 2))
                         ELSE None
              IN IF two # None
                 THEN scan(norm, pos + 2, Append(tokens, two[1]))
                 ELSE LET one == SingleCharToken(char) IN
                      IF one # None
                      THEN scan(norm, pos + 1, Append(tokens, one[1]))
                      ELSE [ok |-> FALSE, tokens |-> <<>>, char |-> char, pos |-> pos]

(* tokenize that counts the position of the error from 1.                 *)
tokenizeOneBased(s) ==
    LET t == scan(normalize(s), 0, <<>>) IN
    IF t.ok THEN t ELSE [t EXCEPT !.pos = @ + 1]

tokenize(s) == scan(normalize(s), 0, <<>>)

----------------------------------------------------------------------------
(* parser.js: class Parser.  The cursor this.pos is threaded through the   *)
(* operators: each returns the position after the tokens it consumed.      *)

Failure(err, pos) == [ok |-> FALSE, err |-> err, pos |-> pos]

peek(tokens, pos) == tokens[pos + 1]

check(tokens, pos, type) == peek(tokens, pos).type = type

(* expect(type): the consumed token's position, or the thrown error.       *)
expect(tokens, pos, type) ==
    IF ~check(tokens, pos, type)
    THEN Failure("Expected token", pos)
    ELSE [ok |-> TRUE, err |-> "", pos |-> pos + 1]

(* optionalCount with 0 as the count of a keyword that has no number.      *)
optionalCountZero(tokens, pos) ==
    IF check(tokens, pos, TokenType.NUMBER)
    THEN [pos |-> pos + 1, count |-> peek(tokens, pos).value]
    ELSE [pos |-> pos, count |-> 0]

(* const count = this.check(NUMBER) ? this.consume().value : 1             *)
optionalCount(tokens, pos) ==
    IF check(tokens, pos, TokenType.NUMBER)
    THEN [pos |-> pos + 1, count |-> peek(tokens, pos).value]
    ELSE [pos |-> pos, count |-> 1]

(* parseModifiers in which the first modifier of a slot wins: a keep, drop  *)
(* or reroll modifier is ignored when its slot is already set.             *)
RECURSIVE parseModifiersFirstWins(_, _, _)
parseModifiersFirstWins(tokens, pos, dice) ==
    LET set(slot, value) == IF dice[slot] = None THEN [dice EXCEPT ![slot] = value]
                            ELSE dice
    IN
    IF check(tokens, pos, TokenType.KEEP_HIGH)
    THEN LET c == optionalCount(tokens, pos + 1) IN
         parseModifiersFirstWins(tokens, c.pos,
             set("keep", Some([type |-> "highest", count |-> c.count])))
    ELSE IF check(tokens, pos, TokenType.KEEP_LOW)
    THEN LET c == optionalCount(tokens, pos + 1) IN
         parseModifiersFirstWins(tokens, c.pos,
             set("keep", Some([type |-> "lowest", count |-> c.count])))
    ELSE IF check(tokens, pos, TokenType.DROP_HIGH)
    THEN LET c == optionalCount(tokens, pos + 1) IN
         parseModifiersFirstWins(tokens, c.pos,
             set("drop", Some([type |-> "highest", count |-> c.count])))
    ELSE IF check(tokens, pos, TokenType.DROP_LOW)
    THEN LET c == optionalCount(tokens, pos + 1) IN
         parseModifiersFirstWins(tokens, c.pos,
             set("drop", Some([type |-> "lowest", count |-> c.count])))
    ELSE IF check(tokens, pos, TokenType.EXPLODE)
    THEN parseModifiersFirstWins(tokens, pos + 1, [dice EXCEPT !.exploding = TRUE])
    ELSE IF check(tokens, pos, TokenType.REROLL)
    THEN IF ~check(tokens, pos + 1, TokenType.NUMBER)
         THEN [ok |-> FALSE, err |-> "Expected number after r (reroll)",
               pos |-> pos + 1, dice |-> dice]
         ELSE parseModifiersFirstWins(tokens, pos + 2,
                  set("reroll", Some(peek(tokens, pos + 1).value)))
    ELSE [ok |-> TRUE, err |-> "", pos |-> pos, dice |-> dice]

RECURSIVE parseModifiers(_, _, _)
parseModifiers(tokens, pos, dice) ==
    IF check(tokens, pos, TokenType.KEEP_HIGH)
    THEN LET c == optionalCount(tokens, pos + 1) IN
         parseModifiers(tokens, c.pos,
             [dice EXCEPT !.keep = Some([type |-> "highest", count |-> c.count])])
    ELSE IF check(tokens, pos, TokenType.KEEP_LOW)
    THEN LET c == optionalCount(tokens, pos + 1) IN
         parseModifiers(tokens, c.pos,
             [dice EXCEPT !.keep = Some([type |-> "lowest", count |-> c.count])])
    ELSE IF check(tokens, pos, TokenType.DROP_HIGH)
    THEN LET c == optionalCount(tokens, pos + 1) IN
         parseModifiers(tokens, c.pos,
             [dice EXCEPT !.drop = Some([type |-> "highest", count |-> c.count])])
    ELSE IF check(tokens, pos, TokenType.DROP_LOW)
    THEN LET c == optionalCount(tokens, pos + 1) IN
         parseModifiers(tokens, c.pos,
             [dice EXCEPT !.drop = Some([type |-> "lowest", count |-> c.count])])
    ELSE IF check(tokens, pos, TokenType.EXPLODE)
    THEN parseModifiers(tokens, pos + 1, [dice EXCEPT !.exploding = TRUE])
    ELSE IF check(tokens, pos, TokenType.REROLL)
    THEN IF ~check(tokens, pos + 1, TokenType.NUMBER)
         THEN [ok |-> FALSE, err |-> "Expected number after r (reroll)",
               pos |-> pos + 1, dice |-> dice]
         ELSE parseModifiers(tokens, pos + 2,
                  [dice EXCEPT !.reroll = Some(peek(tokens, pos + 1).value)])
    ELSE [ok |-> TRUE, err |-> "", pos |-> pos, dice |-> dice]

NewDice(count, sides) ==
    [count |-> count, sides |-> sides, keep |-> None, drop |-> None,
     exploding |-> FALSE, reroll |-> None]

(* parseDice that reads a missing sides token as a d6 instead of throwing. *)
parseDiceDefaultSides(tokens, pos, count) ==
    LET d == expect(tokens, pos, TokenType.D) IN
    IF ~d.ok THEN [ok |-> FALSE, err |-> d.err, pos |-> d.pos, dice |-> None]
    ELSE IF check(tokens, d.pos, TokenType.PERCENT)
    THEN LET m == parseModifiers(tokens, d.pos + 1, NewDice(count, 100)) IN
         [ok |-> m.ok, err |-> m.err, pos |-> m.pos, dice |-> Some(m.dice)]
    ELSE IF check(tokens, d.pos, TokenType.NUMBER)
    THEN LET m == parseModifiers(tokens, d.pos + 1,
                                 NewDice(count, peek(tokens, d.pos).value)) IN
         [ok |-> m.ok, err |-> m.err, pos |-> m.pos, dice |-> Some(m.dice)]
    ELSE LET m == parseModifiers(tokens, d.pos, NewDice(count, 6)) IN
         [ok |-> m.ok, err |-> m.err, pos |-> m.pos, dice |-> Some(m.dice)]

parseDice(tokens, pos, count) ==
    LET d == expect(tokens, pos, TokenType.D) IN
    IF ~d.ok THEN [ok |-> FALSE, err |-> d.err, pos |-> d.pos, dice |-> None]
    ELSE IF check(tokens, d.pos, TokenType.PERCENT)
    THEN LET m == parseModifiers(tokens, d.pos + 1, NewDice(count, 100)) IN
         [ok |-> m.ok, err |-> m.err, pos |-> m.pos, dice |-> Some(m.dice)]
    ELSE IF check(tokens, d.pos, TokenType.NUMBER)
    THEN LET m == parseModifiers(tokens, d.pos + 1,
                                 NewDice(count, peek(tokens, d.pos).value)) IN
         [ok |-> m.ok, err |-> m.err, pos |-> m.pos, dice |-> Some(m.dice)]
    ELSE [ok |-> FALSE, err |-> "Expected number or % after d", pos |-> d.pos,
          dice |-> None]

(* parseTerm: type is "dice" (dice holds the group) or "number" (num).     *)
parseTerm(tokens, pos) ==
    IF check(tokens, pos, TokenType.D)
    THEN LET d == parseDice(tokens, pos, 1) IN
         [ok |-> d.ok, err |-> d.err, pos |-> d.pos, type |-> "dice",
          dice |-> d.dice, num |-> 0]
    ELSE IF check(tokens, pos, TokenType.NUMBER)
    THEN LET num == peek(tokens, pos).value IN
         IF check(tokens, pos + 1, TokenType.D)
         THEN LET d == parseDice(tokens, pos + 1, num) IN
              [ok |-> d.ok, err |-> d.err, pos |-> d.pos, type |-> "dice",
               dice |-> d.dice, num |-> 0]
         ELSE [ok |-> TRUE, err |-> "", pos |-> pos + 1, type |-> "number",
               dice |-> None, num |-> num]
    ELSE [ok |-> FALSE, err |-> "Unexpected token, expected number or 'd'",
          pos |-> pos, type |-> "", dice |-> None, num |-> 0]

(* addTerm that leaves out a dice term preceded by a minus sign.            *)
addTermSkippingSubtracted(res, sign, term) ==
    IF term.type = "dice"
    THEN IF sign = -1 THEN res ELSE [res EXCEPT !.dice = Append(@, term.dice[1])]
    ELSE [res EXCEPT !.modifier = @ + sign * term.num]

(* addTerm that adds a bare number whatever its sign.                      *)
addTermUnsigned(res, sign, term) ==
    IF term.type = "dice"
    THEN [res EXCEPT !.dice = Append(@, term.dice[1])]
    ELSE [res EXCEPT !.modifier = @ + term.num]

(* result after one term: result.dice.push / result.modifier +=            *)
addTerm(res, sign, term) ==
    IF term.type = "dice"
    THEN [res EXCEPT !.dice = Append(@, term.dice[1])]
    ELSE [res EXCEPT !.modifier = @ + sign * term.num]

Rejected(err) == [ok |-> FALSE, err |-> err, ast |-> None]

Accepted(ast) == [ok |-> TRUE, err |-> "", ast |-> Some(ast)]

(* The while loop of parseExpression and the final EOF check.              *)
RECURSIVE parseTerms(_, _, _)
parseTerms(tokens, pos, res) ==
    IF check(tokens, pos, TokenType.PLUS) \/ check(tokens, pos, TokenType.MINUS)
    THEN LET sign == IF peek(tokens, pos).type = TokenType.PLUS THEN 1 ELSE -1
             term == parseTerm(tokens, pos + 1)
         IN IF ~term.ok THEN Rejected(term.err)
            ELSE parseTerms(tokens, term.pos, addTerm(res, sign, term))
    ELSE IF ~check(tokens, pos, TokenType.EOF)
    THEN Rejected("Unexpected token at end of expression")
    ELSE Accepted(res)

parseExpression(tokens) ==
    LET firstTerm == parseTerm(tokens, 0) IN
    IF ~firstTerm.ok THEN Rejected(firstTerm.err)
    ELSE parseTerms(tokens, firstTerm.pos,
                    addTerm([dice |-> <<>>, modifier |-> 0], 1, firstTerm))

parse(s) ==
    IF s = <<>> THEN Rejected("Input must be a non-empty string")
    ELSE LET trimmed == trim(s) IN
         IF Len(trimmed) = 0 THEN Rejected("Input must be a non-empty string")
         ELSE LET t == tokenize(trimmed) IN
              IF ~t.ok THEN Rejected("Unexpected character")
              ELSE parseExpression(t.tokens)

----------------------------------------------------------------------------
(* roller.js.  The random source is a finite sequence of raw 32-bit words  *)
(* (what crypto.getRandomValues writes into the Uint32Array), read         *)
(* cyclically: the draw number pos (zero-based) of one invocation reads    *)
(* sd[(pos % Len(sd)) + 1].                                                *)

(* The JavaScript number NaN (x % 0); it absorbs arithmetic.               *)
NaN == -1000000

Add(a, b) == IF a = NaN \/ b = NaN THEN NaN ELSE a + b

Sub(a, b) == IF a = NaN \/ b = NaN THEN NaN ELSE a - b

Mod(a, b) == IF a = NaN \/ b = NaN \/ b = 0 THEN NaN ELSE a % b

word(sd, pos) == sd[(pos % Len(sd)) + 1]

randomInt(min, max, w) ==
    LET range == max - min + 1 IN Add(min, Mod(w, range))

rollDie(sides, w) == randomInt(1, sides, w)

maxExplosions == 100

Entry(sides, value) ==
    [die |-> sides, value |-> value, kept |-> TRUE, dropped |-> FALSE,
     exploded |-> FALSE, rerolled |-> FALSE, originalValue |-> None]

(* explode that rolls one bonus die and does not chain.                    *)
explodeOnce(diceGroup, sd, st) ==
    LET value == rollDie(diceGroup.sides, word(sd, st.pos)) IN
    [rolls |-> Append(st.rolls, [Entry(diceGroup.sides, value) EXCEPT !.exploded = TRUE]),
     pos |-> st.pos + 1,
     explosionCount |-> st.explosionCount + 1,
     draws |-> Append(st.draws, <<st.pos>>)]

(* The while loop of rollDiceGroup that chains explosions, entered with    *)
(* explosionCount < maxExplosions after a die that showed sides.  Its      *)
(* iteration number j draws the word at pos + j - 1 and the loop leaves    *)
(* after the first iteration whose value is not sides or that brings       *)
(* explosionCount to maxExplosions.  st holds the locals rolls and         *)
(* explosionCount, the position pos in the draw stream and, for each entry *)
(* of rolls, the draws it consumed (draws).                                *)
explode(diceGroup, sd, st) ==
    LET sides == diceGroup.sides
        value(j) == rollDie(sides, word(sd, st.pos + j - 1))
        leaves(j) == value(j) # sides \/ st.explosionCount + j >= maxExplosions
        budget == maxExplosions - st.explosionCount
        n == CHOOSE j \in 1..budget : leaves(j) /\ \A k \in 1..(j - 1) : ~leaves(k)
    IN [rolls |-> st.rolls \o
                  [j \in 1..n |-> [Entry(sides, value(j)) EXCEPT !.exploded = TRUE]],
        pos |-> st.pos + n,
        explosionCount |-> st.explosionCount + n,
        draws |-> st.draws \o [j \in 1..n |-> <<st.pos + j - 1>>]]

(* rollOne that rerolls a second time when the rerolled value is again the *)
(* reroll target.                                                          *)
rollOneRerollingTwice(diceGroup, sd, st) ==
    LET sides == diceGroup.sides
        first == rollDie(sides, word(sd, st.pos))
        hit == diceGroup.reroll # None /\ first = diceGroup.reroll[1]
        second == rollDie(sides, word(sd, st.pos + 1))
        again == hit /\ second = diceGroup.reroll[1]
        value == IF again THEN rollDie(sides, word(sd, st.pos + 2))
                 ELSE IF hit THEN second ELSE first
        roll == IF hit
                THEN [Entry(sides, value) EXCEPT !.rerolled = TRUE,
                                                 !.originalValue = Some(first)]
                ELSE Entry(sides, value)
        used == IF again THEN <<st.pos, st.pos + 1, st.pos + 2>>
                ELSE IF hit THEN <<st.pos, st.pos + 1>> ELSE <<st.pos>>
        st2 == [rolls |-> Append(st.rolls, roll),
                pos |-> st.pos + Len(used),
                explosionCount |-> st.explosionCount,
                draws |-> Append(st.draws, used)]
    IN IF diceGroup.exploding /\ value = sides /\ st2.explosionCount < maxExplosions
       THEN explode(diceGroup, sd, st2)
       ELSE st2

(* rollOne that decides on the explosion by the first draw of the die, not *)
(* by the value it has after the reroll.                                   *)
rollOneExplodingOnFirst(diceGroup, sd, st) ==
    LET sides == diceGroup.sides
        first == rollDie(sides, word(sd, st.pos))
        hit == diceGroup.reroll # None /\ first = diceGroup.reroll[1]
        value == IF hit THEN rollDie(sides, word(sd, st.pos + 1)) ELSE first
        roll == IF hit
                THEN [Entry(sides, value) EXCEPT !.rerolled = TRUE,
                                                 !.originalValue = Some(first)]
                ELSE Entry(sides, value)
        used == IF hit THEN <<st.pos, st.pos + 1>> ELSE <<st.pos>>
        st2 == [rolls |-> Append(st.rolls, roll),
                pos |-> st.pos + Len(used),
                explosionCount |-> st.explosionCount,
                draws |-> Append(st.draws, used)]
    IN IF diceGroup.exploding /\ first = sides /\ st2.explosionCount < maxExplosions
       THEN explode(diceGroup, sd, st2)
       ELSE st2

(* rollOne with a counter of explosions for each die instead of one for   *)
(* the group.                                                              *)
rollOneCountingPerDie(diceGroup, sd, st) ==
    LET sides == diceGroup.sides
        first == rollDie(sides, word(sd, st.pos))
        hit == diceGroup.reroll # None /\ first = diceGroup.reroll[1]
        value == IF hit THEN rollDie(sides, word(sd, st.pos + 1)) ELSE first
        roll == IF hit
                THEN [Entry(sides, value) EXCEPT !.rerolled = TRUE,
                                                 !.originalValue = Some(first)]
                ELSE Entry(sides, value)
        used == IF hit THEN <<st.pos, st.pos + 1>> ELSE <<st.pos>>
        st2 == [rolls |-> Append(st.rolls, roll),
                pos |-> st.pos + Len(used),
                explosionCount |-> 0,
                draws |-> Append(st.draws, used)]
    IN IF diceGroup.exploding /\ value = sides
       THEN explode(diceGroup, sd, st2)
       ELSE st2

(* One iteration of the for loop of rollDiceGroup: one initial die with    *)
(* its reroll and its explosion chain.                                     *)
rollOne(diceGroup, sd, st) ==
    LET sides == diceGroup.sides
        first == rollDie(sides, word(sd, st.pos))
        hit == diceGroup.reroll # None /\ first = diceGroup.reroll[1]
        value == IF hit THEN rollDie(sides, word(sd, st.pos + 1)) ELSE first
        roll == IF hit
                THEN [Entry(sides, value) EXCEPT !.rerolled = TRUE,
                                                 !.originalValue = Some(first)]
                ELSE Entry(sides, value)
        used == IF hit THEN <<st.pos, st.pos + 1>> ELSE <<st.pos>>
        st2 == [rolls |-> Append(st.rolls, roll),
                pos |-> st.pos + Len(used),
                explosionCount |-> st.explosionCount,
                draws |-> Append(st.draws, used)]
    IN IF diceGroup.exploding /\ value = sides /\ st2.explosionCount < maxExplosions
       THEN explode(diceGroup, sd, st2)
       ELSE st2

RECURSIVE rollLoop(_, _, _, _)
rollLoop(diceGroup, sd, i, st) ==
    IF i < diceGroup.count
    THEN rollLoop(diceGroup, sd, i + 1, rollOne(diceGroup, sd, st))
    ELSE st

(* rollDiceGroup with explosionCount kept in the module: a call starts     *)
(* with the count the last group of the call before it ended with.         *)
rollDiceGroupKeepingCount(diceGroup, sd, pos) ==
    rollLoop(diceGroup, sd, 0,
             [rolls |-> <<>>, pos |-> pos,
              explosionCount |-> IF stages = <<>> THEN 0
                                 ELSE stages[Len(stages)].explosionCount,
              draws |-> <<>>])

(* rollDiceGroup started at position pos of the draw stream.               *)
rollDiceGroup(diceGroup, sd, pos) ==
    rollLoop(diceGroup, sd, 0,
             [rolls |-> <<>>, pos |-> pos, explosionCount |-> 0, draws |-> <<>>])

(* The comparator of applyKeep and applyDrop on two values.                *)
compare(type, a, b) == IF type = "highest" THEN Sub(b, a) ELSE Sub(a, b)

(* c > 0 for a comparator result c, which sort reads as 0 when it is NaN. *)
Positive(c) == c # NaN /\ c > 0

(* Array.prototype.sort is stable: the indices that no other index has to  *)
(* come before are put first, in the order they had, then the remaining    *)
(* ones in the same way.                                                   *)
RECURSIVE sortIndices(_, _, _)
sortIndices(rolls, type, indices) ==
    IF indices = <<>> THEN <<>>
    ELSE LET n == Len(indices)
             top == CHOOSE k \in 1..n : \A m \in 1..n :
                        ~Positive(compare(type, rolls[indices[k]].value,
                                          rolls[indices[m]].value))
             first(i) == ~Positive(compare(type, rolls[i].value,
                                           rolls[indices[top]].value))
         IN SelectSeq(indices, first)
            \o sortIndices(rolls, type, SelectSeq(indices, LAMBDA i : ~first(i)))

(* keptIndices that ranks the initial dice only, not the exploded entries.  *)
keptIndicesOfInitial(rolls, type) ==
    sortIndices(rolls, type,
                SelectSeq([i \in 1..Len(rolls) |-> i],
                          LAMBDA i : rolls[i].kept /\ ~rolls[i].exploded))

(* keptIndices of applyKeep and applyDrop: map, filter, sort.              *)
keptIndices(rolls, type) ==
    sortIndices(rolls, type,
                SelectSeq([i \in 1..Len(rolls) |-> i], LAMBDA i : rolls[i].kept))

(* Array.prototype.slice(0, count)                                         *)
slice(seq, count) == SubSeq(seq, 1, IF count < Len(seq) THEN count ELSE Len(seq))

InSeq(seq, x) == \E k \in 1..Len(seq) : seq[k] = x

(* applyKeep that marks the entries it excludes as dropped.                *)
applyKeepMarkingDropped(rolls, keep) ==
    IF keep = None THEN rolls
    ELSE LET toKeep == slice(keptIndices(rolls, keep[1].type), keep[1].count) IN
         [i \in 1..Len(rolls) |->
             IF InSeq(toKeep, i) THEN [rolls[i] EXCEPT !.kept = TRUE]
             ELSE IF rolls[i].kept
             THEN [rolls[i] EXCEPT !.kept = FALSE, !.dropped = TRUE]
             ELSE rolls[i]]

(* applyKeep that ranks all entries, without the filter on kept.           *)
applyKeepUnfiltered(rolls, keep) ==
    IF keep = None THEN rolls
    ELSE LET all == sortIndices(rolls, keep[1].type, [i \in 1..Len(rolls) |-> i])
             toKeep == slice(all, keep[1].count)
         IN [i \in 1..Len(rolls) |->
                IF InSeq(toKeep, i) THEN [rolls[i] EXCEPT !.kept = TRUE]
                ELSE [rolls[i] EXCEPT !.kept = FALSE]]

applyKeep(rolls, keep) ==
    IF keep = None THEN rolls
    ELSE LET toKeep == slice(keptIndices(rolls, keep[1].type), keep[1].count) IN
         [i \in 1..Len(rolls) |->
             IF InSeq(toKeep, i) THEN [rolls[i] EXCEPT !.kept = TRUE]
             ELSE [rolls[i] EXCEPT !.kept = FALSE]]

(* applyDrop that takes the last count of the ordering: slice(-count).     *)
applyDropLast(rolls, drop) ==
    IF drop = None THEN rolls
    ELSE LET sorted == keptIndices(rolls, drop[1].type)
             from == IF drop[1].count < Len(sorted) THEN Len(sorted) - drop[1].count + 1
                     ELSE 1
             toDrop == IF drop[1].count = 0 THEN <<>> ELSE SubSeq(sorted, from, Len(sorted))
         IN [i \in 1..Len(rolls) |->
                IF InSeq(toDrop, i)
                THEN [rolls[i] EXCEPT !.kept = FALSE, !.dropped = TRUE]
                ELSE rolls[i]]

applyDrop(rolls, drop) ==
    IF drop = None THEN rolls
    ELSE LET toDrop == slice(keptIndices(rolls, drop[1].type), drop[1].count) IN
         [i \in 1..Len(rolls) |->
             IF InSeq(toDrop, i)
             THEN [rolls[i] EXCEPT !.kept = FALSE, !.dropped = TRUE]
             ELSE rolls[i]]

(* reduce((sum, roll) => sum + roll.value, 0) over rolls[lo..hi], the sum  *)
(* taken by halves.                                                        *)
RECURSIVE sumValues(_, _, _)
sumValues(rolls, lo, hi) ==
    IF lo > hi THEN 0
    ELSE IF lo = hi THEN Add(0, rolls[lo].value)
    ELSE LET mid == (lo + hi) \div 2 IN
         Add(sumValues(rolls, lo, mid), sumValues(rolls, mid + 1, hi))

(* calculateSubtotal without its filter on kept.                           *)
calculateSubtotalUnfiltered(rolls) == sumValues(rolls, 1, Len(rolls))

calculateSubtotal(rolls) ==
    LET kept == SelectSeq(rolls, LAMBDA roll : roll.kept) IN
    sumValues(kept, 1, Len(kept))

(* processGroup that applies keep before drop.                             *)
processGroupKeepFirst(diceGroup, sd, pos) ==
    LET g == rollDiceGroup(diceGroup, sd, pos)
        kept == IF diceGroup.keep # None THEN applyKeep(g.rolls, diceGroup.keep)
                ELSE g.rolls
        dropped == IF diceGroup.drop # None THEN applyDrop(kept, diceGroup.drop)
                   ELSE kept
    IN [group |-> diceGroup, generated |-> g.rolls, afterDrop |-> kept,
        rolls |-> dropped, draws |-> g.draws, pos |-> g.pos,
        explosionCount |-> g.explosionCount]

(* One iteration of the loop of executeRoll over parsed.dice: roll the     *)
(* group, apply drop, then keep.  The three successive values of the local *)
(* rolls are returned with the draws each entry consumed.                  *)
processGroup(diceGroup, sd, pos) ==
    LET g == rollDiceGroup(diceGroup, sd, pos)
        dropped == IF diceGroup.drop # None THEN applyDrop(g.rolls, diceGroup.drop)
                   ELSE g.rolls
        kept == IF diceGroup.keep # None THEN applyKeep(dropped, diceGroup.keep)
                ELSE dropped
    IN [group |-> diceGroup, generated |-> g.rolls, afterDrop |-> dropped,
        rolls |-> kept, draws |-> g.draws, pos |-> g.pos,
        explosionCount |-> g.explosionCount]

RECURSIVE processGroups(_, _, _, _)
processGroups(dice, sd, pos, done) ==
    IF dice = <<>> THEN done
    ELSE LET g == processGroup(Head(dice), sd, pos) IN
         processGroups(Tail(dice), sd, g.pos, Append(done, g))

(* allRolls that puts the entries of the later groups first.               *)
RECURSIVE allRollsLastFirst(_)
allRollsLastFirst(groups) ==
    IF groups = <<>> THEN <<>>
    ELSE allRollsLastFirst(Tail(groups)) \o Head(groups).rolls

RECURSIVE allRolls(_)
allRolls(groups) ==
    IF groups = <<>> THEN <<>> ELSE Head(groups).rolls \o allRolls(Tail(groups))

(* The RollResult built from the processed groups (id and timestamp, which *)
(* no operation reads, are left out).                                      *)
rollResult(ast, in, groups) ==
    LET rolls == allRolls(groups)
        subtotal == calculateSubtotal(rolls)
        total == Add(subtotal, ast.modifier)
    IN [input |-> in, parsed |-> ast, rolls |-> rolls, subtotal |-> subtotal,
        modifier |-> ast.modifier, total |-> total]

executeRoll(ast, in, sd) == rollResult(ast, in, processGroups(ast.dice, sd, 0, <<>>))

----------------------------------------------------------------------------
(* The inputs of the model                                                 *)

RECURSIVE Flatten(_)
Flatten(ss) == IF ss = <<>> THEN <<>> ELSE Head(ss) \o Flatten(Tail(ss))

SeqsUpTo(S, n) == UNION {[1..k -> S] : k \in 0..n}

(* Pieces of notation, well-formed or not, put together in any order.      *)
Fragments ==
    {<<"1">>, <<"2">>, <<"d">>, <<"+">>, <<"-">>, <<"k", "h">>, <<"d", "l">>,
     <<"!">>, <<"r">>, <<"%">>, <<"x">>}

FragmentInputs == {Flatten(fs) : fs \in SeqsUpTo(Fragments, MaxFrags)}

(* Well-formed terms joined by + and -.                                    *)
Terms ==
    {<<"2", "d", "6">>, <<"1", "d", "4">>, <<"d", "%">>, <<"2", "d", "6", "k", "h", "1">>,
     <<"3">>, <<"2">>, <<"5">>}

Signs == {<<"+">>, <<"-">>}

RECURSIVE TermInputs(_)
TermInputs(n) ==
    IF n = 1 THEN Terms
    ELSE LET shorter == TermInputs(n - 1) IN
         shorter \cup {e \o sg \o t : e \in shorter, sg \in Signs, t \in Terms}

(* The specification's own examples of rejected notations.                 *)
ExampleInputs ==
    {<<"i", "n", "v", "a", "l", "i", "d">>, <<"1", "d">>, <<"2", "d", "6", "r">>,
     <<"2", "d", "6", "d", "4">>, <<"5", "k", "h">>, <<"+", "5">>, <<"-", "2", "d", "6">>,
     <<"2", "d", "6", "+">>, <<"2", "d", "6", "-">>, <<" ">>, <<>>}

(* Upper-case letters, white space, the digit 0 and lone letters of the    *)
(* two-character keywords.                                                 *)
MixedFragments == {<<"1">>, <<"0">>, <<"D">>, <<"K">>, <<"h">>, <<"l">>, <<" ">>}

MixedInputs == {Flatten(fs) : fs \in SeqsUpTo(MixedFragments, MaxFrags)}

(* The specification's own examples of defaults, of bounds, and of letter  *)
(* case and white space.                                                   *)
AcceptedExamples ==
    {<<"2", "d", "2", "0", "k", "h">>, <<"2", "d", "2", "0", "k", "h", "1">>,
     <<"d", "2", "0">>, <<"1", "d", "2", "0">>, <<"d", "1", "0", "0">>,
     <<"4", "d", "6", "d", "l">>, <<"2", "d", "6", "k", "l", "+", "d", "%", "d", "h">>,
     <<"0", "d", "6">>, <<"1", "d", "0">>, <<"2", "d", "6", "k", "h", "0">>,
     <<"1", " ", "0", "d", "6">>, <<" ", "2", "D", "6", " ", "+", "\t", "3", "\n">>,
     <<"2", "D", "2", "0", "K", "H", "1">>}

ParseInputs == FragmentInputs \cup TermInputs(MaxTerms) \cup ExampleInputs

MixedParseInputs == MixedInputs \cup AcceptedExamples

(* Dice terms with and without the parts that have a default.              *)
DefaultFragments ==
    {<<"2">>, <<"d">>, <<"%">>, <<"k", "h">>, <<"k", "l">>, <<"d", "h">>, <<"d", "l">>,
     <<"+">>}

DefaultInputs == {Flatten(fs) : fs \in SeqsUpTo(DefaultFragments, MaxFrags)}

(* One dice term followed by up to MaxMods modifiers, repeated or not.      *)
ModifierPieces ==
    {<<"k", "h">>, <<"k", "h", "2">>, <<"k", "l", "1">>, <<"d", "h", "1">>, <<"d", "l">>,
     <<"d", "l", "2">>, <<"!">>, <<"r", "1">>, <<"r", "2">>}

RepeatedInputs ==
    {<<"2", "d", "6">> \o Flatten(ms) : ms \in SeqsUpTo(ModifierPieces, MaxMods)}

NumStr(n) == <<Digits[n + 1]>>

CountStrs == {<<>>} \cup {NumStr(n) : n \in 0..MaxCount}

SidesStrs == {<<"%">>} \cup {NumStr(n) : n \in 0..MaxSides}

ModifierStrs ==
    {<<>>, <<"!">>, <<"r", "1">>, <<"r", "2">>, <<"r", "1", "!">>,
     <<"k", "h", "1">>, <<"k", "l", "1">>, <<"k", "h", "2">>, <<"k", "l", "0">>,
     <<"d", "l", "1">>, <<"d", "h", "1">>, <<"d", "l", "2">>, <<"d", "h", "9">>,
     <<"d", "l", "1", "k", "h", "1">>, <<"k", "h", "1", "d", "l", "1">>,
     <<"d", "h", "1", "k", "l", "2">>, <<"!", "k", "h", "1">>}

DiceStr(c, s, m) == c \o <<"d">> \o s \o m

SingleNotations ==
    {DiceStr(c, s, m) : c \in CountStrs, s \in SidesStrs, m \in ModifierStrs}

Tails ==
    {<<"+", "2">>, <<"-", "1">>, <<"+", "2", "d", "2", "d", "l", "1">>,
     <<"-", "d", "3", "!">>}

MultiNotations ==
    {DiceStr(NumStr(MaxCount), NumStr(s), m) \o t :
        s \in 1..MaxSides,
        m \in {<<>>, <<"k", "h", "1">>, <<"d", "l", "1">>, <<"r", "1">>},
        t \in Tails}

(* The specification's own examples of notations.                          *)
ExampleNotations ==
    {<<"4", "d", "6", "d", "l", "1">>, <<"2", "d", "2", "0", "k", "h", "1">>,
     <<"1", "d", "6", "!">>, <<"2", "d", "6", "r", "1">>}

Notations == SingleNotations \cup MultiNotations \cup ExampleNotations

(* Dice terms and numbers after a minus sign.                              *)
SignedNotations ==
    {<<"2", "d", "6", "-", "1", "d", "4">>, <<"2", "d", "6", "+", "1", "d", "4">>,
     <<"2", "d", "6", "-", "1", "d", "4", "-", "3">>,
     <<"1", "d", "4", "-", "2", "-", "2", "d", "6", "k", "h", "1">>,
     <<"2", "-", "d", "3", "!">>, <<"2", "d", "6", "-", "d", "%">>,
     <<"3", "-", "1">>, <<"2", "d", "2", "-", "2", "d", "2", "-", "2", "d", "2">>}

(* Groups with reroll and exploding, the reroll target being the maximum   *)
(* face or not.                                                            *)
RerollNotations ==
    {<<"2", "d", "2", "r", "2", "!">>, <<"2", "d", "2", "r", "1", "!">>,
     <<"2", "d", "2", "r", "2", "!", "+", "2", "d", "2", "r", "1", "!">>,
     <<"3", "d", "3", "r", "3", "!">>, <<"2", "d", "3", "r", "1", "!">>,
     <<"2", "d", "2", "!", "r", "2">>, <<"1", "d", "1", "r", "1", "!">>,
     <<"2", "d", "3", "r", "2", "!", "k", "h", "1">>}

(* Groups with exploding and keep or drop, alone and beside another group. *)
SelectNotations ==
    {<<"1", "d", "6", "!", "k", "h", "1">>, <<"1", "d", "6", "!", "k", "l", "1">>,
     <<"2", "d", "2", "!", "k", "h", "1">>, <<"2", "d", "2", "!", "k", "h", "2">>,
     <<"2", "d", "2", "!", "d", "l", "1">>, <<"2", "d", "2", "!", "d", "h", "1", "k", "l", "1">>,
     <<"2", "d", "2", "!", "k", "h", "1", "+", "2", "d", "2">>,
     <<"2", "d", "2", "+", "2", "d", "2", "!", "d", "l", "2">>,
     <<"2", "d", "3", "!", "k", "l", "1", "+", "2", "d", "3", "!", "d", "l", "1">>,
     <<"3", "d", "2", "k", "h", "1", "-", "2", "d", "2", "d", "l", "1">>}

(* Sources that give the maximum face of a d6 and then a lower one.        *)
SelectSeeds == {<<5, 2>>, <<5, 5, 0>>}

Seeds == [1..SeedLen -> 0..MaxWord]

(* The source that always returns the maximum face of a d6.                *)
MaxFaceSeed == <<5>>

----------------------------------------------------------------------------
(* The application: main.js, dice-buttons.js, input-form.js, history.js,   *)
(* presets.js.  app holds the module variables, the state of the controls  *)
(* and localStorage; each function is an operator from app to app.         *)

MAX_HISTORY_LENGTH == 50

(* What JSON.parse reads back where JSON.stringify wrote a NaN: null.      *)
JsonNull == -2000000

(* JSON.parse(JSON.stringify(x)) on a number                               *)
jsonNumber(x) == IF x = NaN THEN JsonNull ELSE x

(* JSON.parse(JSON.stringify(r)) on a roll result                          *)
jsonResult(r) ==
    [r EXCEPT !.rolls = [i \in DOMAIN r.rolls |->
                            [r.rolls[i] EXCEPT !.value = jsonNumber(@)]],
              !.subtotal = jsonNumber(@),
              !.total = jsonNumber(@)]

(* JSON.parse(JSON.stringify(history)) on a list of roll results           *)
jsonHistory(history) == [i \in DOMAIN history |-> jsonResult(history[i])]

(* storage.get(key): the parsed item, null when the key is absent          *)
storageGet(a, key) == a.storage[key]

(* storage.set(key, value), value already in the form JSON gives it        *)
storageSet(a, key, value) == [a EXCEPT !.storage[key] = Some(value)]

(* storage.remove(key)                                                     *)
storageRemove(a, key) == [a EXCEPT !.storage[key] = None]

(* The application after init() with an empty localStorage.                *)
InitialApp ==
    [isRolling |-> FALSE, buttonsDisabled |-> FALSE, formDisabled |-> FALSE,
     errorMessage |-> "", inputValue |-> <<>>, sounds |-> 0, pending |-> <<>>,
     storage |-> [key \in {"history", "presets", "audio-enabled"} |-> None],
     nextId |-> 1]

(* history.js *)

(* storage.get(STORAGE_KEY) || []                                          *)
getHistory(a) ==
    IF storageGet(a, "history") = None THEN <<>> ELSE storageGet(a, "history")[1]

(* addRoll(rollResult): unshift, splice(MAX_HISTORY_LENGTH), storage.set; *)
(* newResult is the argument, None for null.                               *)
addRoll(a, newResult) ==
    IF newResult = None THEN a
    ELSE LET history == <<newResult[1]>> \o getHistory(a)
             capped == IF Len(history) > MAX_HISTORY_LENGTH
                       THEN SubSeq(history, 1, MAX_HISTORY_LENGTH) ELSE history
         IN storageSet(a, "history", jsonHistory(capped))

clearHistory(a) == storageRemove(a, "history")

(* presets.js *)

getPresets(a) ==
    IF storageGet(a, "presets") = None THEN <<>> ELSE storageGet(a, "presets")[1]

savePresets(a, presets) == storageSet(a, "presets", presets)

(* try { parse(notation); return { valid: true } } catch (error) {         *)
(* return { valid: false, error: error.message } }, p the outcome of parse *)
validation(p) ==
    IF p.ok THEN [valid |-> TRUE, error |-> ""] ELSE [valid |-> FALSE, error |-> p.err]

validateNotation(notation) == validation(parse(notation))

(* The end of addPreset: push, savePresets, return { success: true }.      *)
pushPreset(a, preset) ==
    [app |-> savePresets([a EXCEPT !.nextId = @ + 1], Append(getPresets(a), preset)),
     success |-> TRUE, error |-> ""]

(* addPreset that saves the notation without validating it.                *)
addPresetUnvalidated(a, name, notation) ==
    IF trim(name) = <<>>
    THEN [app |-> a, success |-> FALSE, error |-> "Name is required"]
    ELSE IF trim(notation) = <<>>
    THEN [app |-> a, success |-> FALSE, error |-> "Notation is required"]
    ELSE pushPreset(a, [id |-> a.nextId, name |-> trim(name), notation |-> trim(notation)])

(* addPreset(name, notation): the application after the call and the       *)
(* object returned.  generateId() is the next unused number.               *)
addPreset(a, name, notation) ==
    IF trim(name) = <<>>
    THEN [app |-> a, success |-> FALSE, error |-> "Name is required"]
    ELSE IF trim(notation) = <<>>
    THEN [app |-> a, success |-> FALSE, error |-> "Notation is required"]
    ELSE IF ~validateNotation(trim(notation)).valid
    THEN [app |-> a, success |-> FALSE, error |-> "Invalid notation"]
    ELSE pushPreset(a, [id |-> a.nextId, name |-> trim(name), notation |-> trim(notation)])

(* deletePreset(id): findIndex, splice(index, 1), save; nothing when no    *)
(* preset has the id.                                                      *)
deletePreset(a, id) ==
    LET presets == getPresets(a)
        found == {i \in 1..Len(presets) : presets[i].id = id}
    IN IF found = {} THEN a
       ELSE LET index == CHOOSE i \in found : \A j \in found : i <= j IN
            savePresets(a, SubSeq(presets, 1, index - 1)
                           \o SubSeq(presets, index + 1, Len(presets)))

(* input-form.js *)

showError(a, message) == [a EXCEPT !.errorMessage = message]

clearError(a) == [a EXCEPT !.errorMessage = ""]

setFormDisabled(a, disabled) == [a EXCEPT !.formDisabled = disabled]

(* dice-buttons.js *)

setButtonsDisabled(a, disabled) == [a EXCEPT !.buttonsDisabled = disabled]

(* main.js *)

setRollingState(a, disabled) ==
    setFormDisabled(setButtonsDisabled([a EXCEPT !.isRolling = disabled], disabled),
                    disabled)

(* The result of executeRoll with the id that generateId() gave it (the    *)
(* next unused number) and, as roll sets it, result.input = notation.      *)
stamped(returned, id, notation) ==
    [id |-> id, input |-> notation, parsed |-> returned.parsed,
     rolls |-> returned.rolls, subtotal |-> returned.subtotal,
     modifier |-> returned.modifier, total |-> returned.total]

(* audio.init(); audio.play(): sounds counts the calls of play.            *)
playSound(a) == [a EXCEPT !.sounds = @ + 1]

(* rollStarted that adds the result to the history before the animation.   *)
rollStartedAddingAtOnce(rolling, newResult) ==
    [app |-> [addRoll(playSound(rolling), Some(newResult)) EXCEPT
                 !.nextId = @ + 1,
                 !.pending = Append(@, [result |-> newResult, awaitedBy |-> "none"])],
     ret |-> "pending",
     effects |-> <<"setRollingState", "parse", "executeRoll", "play", "addRoll",
                   "animateRoll">>]

(* roll from the sound to the await of animateRoll, newResult being the    *)
(* result of executeRoll: the roll is appended to pending with the result  *)
(* it will add to the history.                                             *)
rollStarted(rolling, newResult) ==
    [app |-> [playSound(rolling) EXCEPT
                 !.nextId = @ + 1,
                 !.pending = Append(@, [result |-> newResult, awaitedBy |-> "none"])],
     ret |-> "pending",
     effects |-> <<"setRollingState", "parse", "executeRoll", "play", "animateRoll">>]

(* The try block of roll after setRollingState(true), p being the outcome  *)
(* of parse(notation); when parse threw, catch and finally.                *)
rollParsed(rolling, notation, p, sd) ==
    IF ~p.ok
    THEN [app |-> setRollingState(showError(rolling, p.err), FALSE),
          ret |-> "rejected",
          effects |-> <<"setRollingState", "parse", "showError", "setRollingState">>]
    ELSE rollStarted(rolling,
                     stamped(executeRoll(p.ast[1], <<>>, sd), rolling.nextId, notation))

(* roll without the check of isRolling at its entry.                       *)
rollUnguarded(a, notation, sd) ==
    rollParsed(setRollingState(a, TRUE), notation, parse(notation), sd)

(* roll(notation) up to its await: the application when the call returns   *)
(* its promise, what the promise is (null, rejected, or pending on the     *)
(* animation) and the steps taken, in order.                               *)
roll(a, notation, sd) ==
    IF a.isRolling
    THEN [app |-> a, ret |-> "null", effects |-> <<>>]
    ELSE rollParsed(setRollingState(a, TRUE), notation, parse(notation), sd)

(* The rest of roll after await animateRoll, for the roll number i of      *)
(* pending: addRoll(result), then finally setRollingState(false); and the  *)
(* rest of the click handler of the quick-dice button that awaits it.      *)
resumeRoll(a, i) ==
    LET r == a.pending[i]
        rest == SubSeq(a.pending, 1, i - 1) \o SubSeq(a.pending, i + 1, Len(a.pending))
        finished == setRollingState(addRoll([a EXCEPT !.pending = rest], Some(r.result)),
                                    FALSE)
    IN IF r.awaitedBy = "button" THEN setButtonsDisabled(finished, FALSE) ELSE finished

(* inputElement.value = '' after the call r of rollCallback.               *)
clearInput(r) == [r EXCEPT !.app.inputValue = <<>>]

(* handleSubmit of the notation form, the field holding text.              *)
handleSubmit(a, text, sd) ==
    IF trim(text) = <<>>
    THEN [app |-> showError(clearError([a EXCEPT !.inputValue = text]),
                            "Please enter dice notation"),
          ret |-> "none", effects |-> <<"showError">>]
    ELSE clearInput(roll(clearError([a EXCEPT !.inputValue = text]), trim(text), sd))

(* finally { setButtonsDisabled(false) } at once, r being the call of roll *)
buttonsReenabled(r) == [r EXCEPT !.app = setButtonsDisabled(r.app, FALSE)]

(* The click handler of a quick-dice button that does not await the roll.  *)
diceButtonClickNoAwait(a, notation, sd) ==
    buttonsReenabled(roll(setButtonsDisabled(a, TRUE), notation, sd))

(* await rollCallback(notation) in the click handler, r being the call of  *)
(* roll: when its promise is already settled the handler ends in the same  *)
(* task with finally { setButtonsDisabled(false) }; otherwise it ends with *)
(* the roll it awaits.                                                     *)
awaitRoll(r) ==
    IF r.ret = "pending"
    THEN [r EXCEPT !.app.pending[Len(r.app.pending)].awaitedBy = "button"]
    ELSE buttonsReenabled(r)

(* The click handler of a quick-dice button: setButtonsDisabled(true),     *)
(* await rollCallback(notation), finally setButtonsDisabled(false).        *)
diceButtonClick(a, notation, sd) ==
    awaitRoll(roll(setButtonsDisabled(a, TRUE), notation, sd))

(* The click on the preset number i of the list: rollCallback(notation).   *)
presetClick(a, i, sd) == roll(a, getPresets(a)[i].notation, sd)

(* audio.js: class AudioManager.  The record holds the fields of the        *)
(* object (audioContext is the state of the context, None for null) and,   *)
(* since the page was loaded, the number of contexts constructed           *)
(* (contexts) and of sounds started (sounds).                              *)

STORAGE_KEY == "audio-enabled"

(* _loadEnabledState(): stored !== null ? stored : true                    *)
loadEnabledState(a) ==
    IF storageGet(a, STORAGE_KEY) # None THEN storageGet(a, STORAGE_KEY)[1] ELSE TRUE

(* new AudioManager() on a page whose localStorage is that of a            *)
AudioManager(a) ==
    [audioContext |-> None, initialized |-> FALSE, enabled |-> loadEnabledState(a),
     contexts |-> 0, sounds |-> 0]

(* What the browser decides in init(): whether an AudioContext class       *)
(* exists, whether its constructor throws, the state of the new context.   *)
Browsers ==
    [supported : BOOLEAN, throws : BOOLEAN, state : {"running", "suspended"}]

(* init that constructs a context on every call.                           *)
initAgain(au, browser) ==
    IF ~browser.supported \/ browser.throws THEN [audio |-> au, ret |-> FALSE]
    ELSE [audio |-> [au EXCEPT !.audioContext = Some(browser.state),
                               !.initialized = TRUE,
                               !.contexts = @ + 1],
          ret |-> TRUE]

(* init(): the manager after the call and the value returned               *)
init(au, browser) ==
    IF au.initialized THEN [audio |-> au, ret |-> TRUE]
    ELSE IF ~browser.supported THEN [audio |-> au, ret |-> FALSE]
    ELSE IF browser.throws THEN [audio |-> au, ret |-> FALSE]
    ELSE [audio |-> [au EXCEPT !.audioContext = Some(browser.state),
                               !.initialized = TRUE,
                               !.contexts = @ + 1],
          ret |-> TRUE]

(* play(): nothing when disabled or not initialized; resume() and nothing  *)
(* when the context is suspended; otherwise _playDiceSound(), which starts *)
(* the sound unless it throws (failed).                                    *)
play(au, failed) ==
    IF ~au.enabled \/ ~au.initialized \/ au.audioContext = None THEN au
    ELSE IF au.audioContext[1] = "suspended" THEN au
    ELSE IF failed THEN au
    ELSE [au EXCEPT !.sounds = @ + 1]

(* _saveEnabledState(): set(STORAGE_KEY, this.enabled)                     *)
saveEnabledState(a, au) == storageSet(a, STORAGE_KEY, au.enabled)

(* toggle(): the manager and the application (its localStorage) after the  *)
(* call, and the value returned                                            *)
toggle(a, au) ==
    LET flipped == [au EXCEPT !.enabled = ~au.enabled] IN
    [audio |-> flipped, app |-> saveEnabledState(a, flipped), ret |-> flipped.enabled]

isEnabled(au) == au.enabled

(* The call op of the audio manager returned ret; pre is the manager       *)
(* before the call.                                                        *)
AudioCall(op, ret, pre) ==
    [op |-> op, arg |-> <<>>, name |-> <<>>, ret |-> ret, error |-> "",
     effects |-> <<>>, pre |-> pre]

(* roller.js: tally counts, for a die of sides faces, the raw words        *)
(* 0 .. next - 1 that randomInt(1, sides) maps to each face.               *)
NewTally(sides) == [sides |-> sides, next |-> 0, count |-> [face \in 1..sides |-> 0]]

NoTally == NewTally(0)

(* last is the handler that ran last: its argument, what it returned, the  *)
(* steps it took and the application before it.                            *)
Call(op, arg, r, pre) ==
    [op |-> op, arg |-> arg, name |-> <<>>, ret |-> r.ret, error |-> "",
     effects |-> r.effects, pre |-> pre]

NoCall ==
    Call("none", <<>>, [ret |-> "none", effects |-> <<>>], InitialApp)

engine == <<phase, input, parsed, seed, result, stages, calls>>

----------------------------------------------------------------------------
(* The state machine.  phase is the position of the caller: "idle" before  *)
(* parse, "parsed" or "rejected" after it, "rolled" after executeRoll.     *)

NoParse == [ok |-> FALSE, err |-> "", ast |-> None]

Init ==
    /\ phase = "idle"
    /\ input = <<>>
    /\ parsed = NoParse
    /\ seed = <<>>
    /\ result = None
    /\ stages = <<>>
    /\ calls = <<>>
    /\ app = InitialApp
    /\ last = NoCall
    /\ added = <<>>
    /\ audio = AudioManager(app)
    /\ tally = NoTally

(* parse(s)                                                                *)
Parse(s) ==
    /\ input' = s
    /\ parsed' = parse(s)
    /\ phase' = IF parsed'.ok THEN "parsed" ELSE "rejected"
    /\ UNCHANGED <<seed, result, stages, calls, app, last, added, audio, tally>>

(* executeRoll(parsed, input) with the random source sd.  calls is the     *)
(* record of the invocations made so far: the expression passed, the draws *)
(* and what was returned.                                                  *)
ExecuteRoll(sd) ==
    /\ LET groups == processGroups(parsed.ast[1].dice, sd, 0, <<>>)
           returned == rollResult(parsed.ast[1], input, groups)
       IN /\ stages' = groups
          /\ result' = Some(returned)
          /\ calls' = Append(calls, [expr |-> parsed.ast[1], seed |-> sd,
                                     result |-> returned])
    /\ seed' = sd
    /\ phase' = "rolled"
    /\ UNCHANGED <<input, parsed, app, last, added, audio, tally>>

ParseNotation == phase = "idle" /\ \E s \in Notations : Parse(s)

Roll == phase = "parsed" /\ \E sd \in Seeds \cup {MaxFaceSeed} : ExecuteRoll(sd)

Next == ParseNotation \/ Roll

Spec == Init /\ [][Next]_vars

ParseSigned == phase = "idle" /\ \E s \in SignedNotations : Parse(s)

NextSigned == ParseSigned \/ Roll

SpecSigned == Init /\ [][NextSigned]_vars

ParseReroll == phase = "idle" /\ \E s \in RerollNotations : Parse(s)

NextReroll == ParseReroll \/ Roll

SpecReroll == Init /\ [][NextReroll]_vars

ParseSelect == phase = "idle" /\ \E s \in SelectNotations : Parse(s)

RollSelect == phase = "parsed" /\ \E sd \in SelectSeeds : ExecuteRoll(sd)

NextSelect == ParseSelect \/ Roll \/ RollSelect

SpecSelect == Init /\ [][NextSelect]_vars

ParseInput == phase = "idle" /\ \E s \in ParseInputs : Parse(s)

NextParse == ParseInput

SpecParse == Init /\ [][NextParse]_vars

ParseMixedInput == phase = "idle" /\ \E s \in MixedParseInputs : Parse(s)

ParseDefaultInput == phase = "idle" /\ \E s \in DefaultInputs : Parse(s)

NextNotation == ParseMixedInput \/ ParseDefaultInput

SpecNotation == Init /\ [][NextNotation]_vars

ParseRepeated == phase = "idle" /\ \E s \in RepeatedInputs : Parse(s)

NextModifiers == ParseRepeated

SpecModifiers == Init /\ [][NextModifiers]_vars

(* The calls of executeRoll of one session: parse another notation, or     *)
(* call executeRoll again with the expression already parsed.              *)
CallNotations ==
    {<<"1", "d", "1", "!">>, <<"1", "d", "1", "!", "+", "1", "d", "1", "!">>,
     <<"2", "d", "2", "r", "1">>}

CallSeeds == {<<1>>, <<1, 0>>}

ParseCall ==
    /\ phase \in {"idle", "rolled"}
    /\ Len(calls) < MaxCalls
    /\ \E s \in CallNotations : Parse(s)

RollCall ==
    /\ phase \in {"parsed", "rolled"}
    /\ Len(calls) < MaxCalls
    /\ \E sd \in CallSeeds : ExecuteRoll(sd)

NextCalls == ParseCall \/ RollCall

SpecCalls == Init /\ [][NextCalls]_vars

----------------------------------------------------------------------------
(* The application.                                                        *)

(* What the user types into the notation form.                             *)
FormTexts ==
    {<<>>, <<" ">>, <<"1", "d", "2">>, <<" ", "2", "D", "2", " ">>, <<"1", "d", "0">>,
     <<"x">>, <<"1", "d">>}

(* The data-roll notations of the quick-dice buttons.                      *)
ButtonNotations == {<<"1", "d", "4">>, <<"1", "d", "2", "0">>}

AppSeeds == {<<0>>, <<1>>}

(* A preset saved by an earlier session.                                   *)
StoredPresets == <<[id |-> 0, name |-> <<"A">>, notation |-> <<"2", "d", "2">>]>>

InitApp ==
    /\ phase = "idle"
    /\ input = <<>>
    /\ parsed = NoParse
    /\ seed = <<>>
    /\ result = None
    /\ stages = <<>>
    /\ calls = <<>>
    /\ app = savePresets(InitialApp, StoredPresets)
    /\ last = NoCall
    /\ added = <<>>
    /\ audio = AudioManager(app)
    /\ tally = NoTally

(* The handler op ran with the argument arg and returned r.                *)
Handled(op, arg, r) ==
    /\ app' = r.app
    /\ last' = Call(op, arg, r, app)

(* The submit event of the notation form: the form is not disabled.        *)
SubmitForm ==
    /\ ~app.formDisabled
    /\ app.nextId <= MaxRolls
    /\ \E text \in FormTexts, sd \in AppSeeds :
          Handled("handleSubmit", text, handleSubmit(app, text, sd))
    /\ UNCHANGED <<engine, added, audio, tally>>

(* The click event of a quick-dice button: the button is not disabled.     *)
ClickDiceButton ==
    /\ ~app.buttonsDisabled
    /\ app.nextId <= MaxRolls
    /\ \E notation \in ButtonNotations, sd \in AppSeeds :
          Handled("diceButtonClick", notation, diceButtonClick(app, notation, sd))
    /\ UNCHANGED <<engine, added, audio, tally>>

(* The click event of a preset of the list, at any time.                   *)
ClickPreset ==
    /\ app.nextId <= MaxRolls
    /\ \E i \in 1..Len(getPresets(app)), sd \in AppSeeds :
          Handled("presetClick", getPresets(app)[i].notation, presetClick(app, i, sd))
    /\ UNCHANGED <<engine, added, audio, tally>>

(* The timer of animateRoll fires and the promise resolves.                *)
AnimationDone ==
    /\ app.pending # <<>>
    /\ \E i \in 1..Len(app.pending) :
          /\ app' = resumeRoll(app, i)
          /\ last' = Call("resumeRoll", app.pending[i].result.input,
                          [ret |-> "result", effects |-> <<"addRoll", "setRollingState">>],
                          app)
    /\ UNCHANGED <<engine, added, audio, tally>>

NextApp == SubmitForm \/ ClickDiceButton \/ ClickPreset \/ AnimationDone

(* The timer set by animateRoll fires.                                     *)
SpecApp == InitApp /\ [][NextApp]_vars /\ WF_vars(AnimationDone)

----------------------------------------------------------------------------
(* The history by itself: added is the list of the results passed to       *)
(* addRoll since the last clearHistory, oldest first.                      *)

(* The rolls of a session, over and over: notation and random source.      *)
HistoryRolls ==
    <<[notation |-> <<"1", "d", "2">>, seed |-> <<1>>],
      [notation |-> <<"1", "d", "0">>, seed |-> <<0>>],
      [notation |-> <<"2", "d", "2", "k", "h", "1", "+", "1">>, seed |-> <<1, 0>>]>>

(* The result number id of the session.                                    *)
RollOf(r, id) ==
    stamped(executeRoll(parse(r.notation).ast[1], <<>>, r.seed), id, r.notation)

HistoryResult(id) == RollOf(HistoryRolls[(id % Len(HistoryRolls)) + 1], id)

(* addRoll(newResult)                                                      *)
Added(newResult) ==
    /\ app' = addRoll([app EXCEPT !.nextId = @ + 1], Some(newResult))
    /\ added' = Append(added, newResult)
    /\ last' = Call("addRoll", newResult.input, [ret |-> "none", effects |-> <<>>], app)

AddRoll ==
    /\ app.nextId <= MaxAdds
    /\ Added(HistoryResult(app.nextId))
    /\ UNCHANGED <<engine, audio, tally>>

AddNull ==
    /\ app' = addRoll(app, None)
    /\ last' = Call("addRoll(null)", <<>>, [ret |-> "none", effects |-> <<>>], app)
    /\ UNCHANGED <<engine, added, audio, tally>>

ClearHistory ==
    /\ app' = clearHistory(app)
    /\ added' = <<>>
    /\ last' = Call("clearHistory", <<>>, [ret |-> "none", effects |-> <<>>], app)
    /\ UNCHANGED <<engine, audio, tally>>

NextHistory == AddRoll \/ AddNull \/ ClearHistory

SpecHistory == Init /\ [][NextHistory]_vars

----------------------------------------------------------------------------
(* The presets by themselves.                                              *)

PresetNames == {<<>>, <<" ">>, <<"A">>, <<" ", "B", " ">>}

PresetNotations ==
    {<<>>, <<" ">>, <<"1", "d", "2">>, <<" ", "2", "D", "2", " ">>, <<"1", " ", "d", "2">>,
     <<"x">>, <<"1", "d">>}

(* addPreset(name, notation) returned r.                                   *)
PresetAdded(name, notation, r) ==
    /\ app' = r.app
    /\ last' = [op |-> "addPreset", arg |-> notation, name |-> name,
                ret |-> IF r.success THEN "success" ELSE "failure",
                error |-> r.error, effects |-> <<>>, pre |-> app]

AddPreset ==
    /\ app.nextId <= MaxPresets
    /\ \E name \in PresetNames, notation \in PresetNotations :
          PresetAdded(name, notation, addPreset(app, name, notation))
    /\ UNCHANGED <<engine, added, audio, tally>>

DeletePreset ==
    /\ getPresets(app) # <<>>
    /\ \E id \in 1..MaxPresets :
          /\ app' = deletePreset(app, id)
          /\ last' = Call("deletePreset", <<>>, [ret |-> "none", effects |-> <<>>], app)
    /\ UNCHANGED <<engine, added, audio, tally>>

NextPresets == AddPreset \/ DeletePreset

SpecPresets == Init /\ [][NextPresets]_vars

----------------------------------------------------------------------------
(* The random source by itself: for one die, randomInt(1, sides) is applied *)
(* to every raw word of WordBits bits, each exactly once, in rising order. *)

InitRandom ==
    /\ phase = "idle"
    /\ input = <<>>
    /\ parsed = NoParse
    /\ seed = <<>>
    /\ result = None
    /\ stages = <<>>
    /\ calls = <<>>
    /\ app = InitialApp
    /\ last = NoCall
    /\ added = <<>>
    /\ audio = AudioManager(app)
    /\ \E sides \in 1..MaxFaces : tally = NewTally(sides)

(* rollDie(sides) when crypto.getRandomValues gives the word tally.next    *)
DrawWord ==
    /\ tally.next < 2^WordBits
    /\ tally' = [tally EXCEPT !.next = @ + 1,
                              !.count[rollDie(tally.sides, tally.next)] = @ + 1]
    /\ UNCHANGED <<engine, app, last, added, audio>>

NextRandom == DrawWord

SpecRandom == InitRandom /\ [][NextRandom]_vars

----------------------------------------------------------------------------
(* The audio manager by itself: the calls of its methods in any order, the *)
(* page reloaded at any time, the browser suspending and resuming the      *)
(* context at any time.                                                    *)

AudioInit ==
    /\ \E browser \in Browsers :
          /\ audio' = init(audio, browser).audio
          /\ last' = AudioCall("init", init(audio, browser).ret, audio)
    /\ UNCHANGED <<engine, app, added, tally>>

AudioPlay ==
    /\ audio.sounds < MaxSounds
    /\ \E failed \in BOOLEAN : audio' = play(audio, failed)
    /\ last' = AudioCall("play", "none", audio)
    /\ UNCHANGED <<engine, app, added, tally>>

AudioToggle ==
    /\ audio' = toggle(app, audio).audio
    /\ app' = toggle(app, audio).app
    /\ last' = AudioCall("toggle", toggle(app, audio).ret, audio)
    /\ UNCHANGED <<engine, added, tally>>

(* The page is loaded again: the module constructs a new AudioManager;     *)
(* localStorage stays.                                                     *)
Reload ==
    /\ audio' = AudioManager(app)
    /\ last' = AudioCall("reload", "none", audio)
    /\ UNCHANGED <<engine, app, added, tally>>

(* audioContext.state changes: resume() takes effect, or the browser       *)
(* suspends the context of an inactive tab.                                *)
ContextStateChange ==
    /\ audio.audioContext # None
    /\ audio' = [audio EXCEPT !.audioContext =
                    Some(IF @[1] = "suspended" THEN "running" ELSE "suspended")]
    /\ last' = AudioCall("statechange", "none", audio)
    /\ UNCHANGED <<engine, app, added, tally>>

NextAudio == AudioInit \/ AudioPlay \/ AudioToggle \/ Reload \/ ContextStateChange

SpecAudio == Init /\ [][NextAudio]_vars

----------------------------------------------------------------------------
(* Properties of the roll executor, stated on the state after executeRoll  *)

Rolled == phase = "rolled"

Min(a, b) == IF a < b THEN a ELSE b

Indices(rolls) == 1..Len(rolls)

KeptSet(rolls) == {i \in Indices(rolls) : rolls[i].kept}

DroppedSet(rolls) == {i \in Indices(rolls) : rolls[i].dropped}

ExplodedSet(rolls) == {i \in Indices(rolls) : rolls[i].exploded}

(* The sum of the values of the entries of S, taken over the faces: each   *)
(* face times the number of entries of S that show it.                     *)
RECURSIVE SumOfFaces(_, _, _)
SumOfFaces(rolls, S, faces) ==
    IF faces = {} THEN 0
    ELSE LET v == CHOOSE f \in faces : TRUE
             times == Cardinality({i \in S : rolls[i].value = v})
         IN Add(IF v = NaN THEN NaN ELSE v * times, SumOfFaces(rolls, S, faces \ {v}))

KeptValueSum(rolls) ==
    SumOfFaces(rolls, KeptSet(rolls), {rolls[i].value : i \in KeptSet(rolls)})

\* C1: in every RollResult, subtotal is the sum of the values of exactly the
\* entries with kept = true (over all groups), modifier is the expression's
\* modifier and total = subtotal + modifier.
C1_Aggregation ==
    Rolled =>
        /\ result[1].subtotal = KeptValueSum(result[1].rolls)
        /\ result[1].modifier = parsed.ast[1].modifier
        /\ result[1].total = Add(result[1].subtotal, result[1].modifier)

(* A result with a kept and an unkept entry and a modifier that is not 0.  *)
C1_Witness ==
    /\ Rolled
    /\ result[1].modifier # 0
    /\ KeptSet(result[1].rolls) # {}
    /\ KeptSet(result[1].rolls) # Indices(result[1].rolls)
    /\ result[1].subtotal > 0

\* C2: for every notation that parse accepts and every random source, every
\* entry of the result (initial, rerolled or explosion) has an integer value
\* with 1 <= value <= sides of its dice group.
C2_ValueInRange ==
    Rolled =>
        \A g \in 1..Len(stages) : \A i \in Indices(stages[g].rolls) :
            LET value == stages[g].rolls[i].value IN
            /\ value # NaN
            /\ 1 <= value
            /\ value <= stages[g].group.sides

\* C3: rollDiceGroup stops after a bounded number of draws and a group never
\* holds more than 100 entries marked exploded, the count being shared by all
\* dice of the group; 1d6! with the source that always returns the maximum
\* face ends with one initial entry followed by exactly 100 exploded entries.
C3_ExplosionCap ==
    Rolled =>
        /\ \A g \in 1..Len(stages) :
              /\ Cardinality(ExplodedSet(stages[g].generated)) <= 100
              /\ Len(stages[g].generated) <= stages[g].group.count + 100
              /\ stages[g].pos - (IF g = 1 THEN 0 ELSE stages[g - 1].pos)
                     <= 2 * stages[g].group.count + 100
        /\ (input = <<"1", "d", "6", "!">> /\ seed = MaxFaceSeed) =>
              /\ Len(result[1].rolls) = 101
              /\ ExplodedSet(result[1].rolls) = 2..101

(* A group of two dice whose first die used up all 100 explosions, so that *)
(* the second die, which shows the maximum face, did not explode.          *)
C3_Witness ==
    /\ Rolled
    /\ Len(stages) = 1
    /\ stages[1].group.count = 2
    /\ Cardinality(ExplodedSet(stages[1].generated)) = 100
    /\ stages[1].generated[102].value = stages[1].group.sides
    /\ ~stages[1].generated[102].exploded

----------------------------------------------------------------------------
(* Properties of the parser, stated on the state after parse               *)

Parsed == phase \in {"parsed", "rejected"}

(* The grammar of the notation over the token types ts (ts ends with EOF,  *)
(* positions are zero-based): the sets of positions at which a match of a  *)
(* nonterminal that starts at p can end.                                   *)
TypeAt(ts, p) == IF p < Len(ts) THEN ts[p + 1] ELSE "none"

KeepDropTypes ==
    {TokenType.KEEP_HIGH, TokenType.KEEP_LOW, TokenType.DROP_HIGH, TokenType.DROP_LOW}

(* modifier := ('kh'|'kl') [NUMBER] | ('dh'|'dl') [NUMBER] | '!' | 'r' NUMBER *)
ModifierEnds(ts, p) ==
    (IF TypeAt(ts, p) \in KeepDropTypes
     THEN {p + 1} \cup (IF TypeAt(ts, p + 1) = TokenType.NUMBER THEN {p + 2} ELSE {})
     ELSE {})
    \cup (IF TypeAt(ts, p) = TokenType.EXPLODE THEN {p + 1} ELSE {})
    \cup (IF TypeAt(ts, p) = TokenType.REROLL /\ TypeAt(ts, p + 1) = TokenType.NUMBER
          THEN {p + 2} ELSE {})

(* modifier*                                                               *)
RECURSIVE ModifiersEnds(_, _)
ModifiersEnds(ts, P) ==
    LET more == P \cup UNION {ModifierEnds(ts, p) : p \in P} IN
    IF more = P THEN P ELSE ModifiersEnds(ts, more)

(* dice := [NUMBER] 'd' (NUMBER|'%') modifier*                             *)
DiceEnds(ts, p) ==
    LET starts == {p} \cup (IF TypeAt(ts, p) = TokenType.NUMBER THEN {p + 1} ELSE {})
        sided == {q + 2 : q \in {q \in starts :
                     /\ TypeAt(ts, q) = TokenType.D
                     /\ TypeAt(ts, q + 1) \in {TokenType.NUMBER, TokenType.PERCENT}}}
    IN ModifiersEnds(ts, sided)

(* term := dice | NUMBER                                                   *)
TermEnds(ts, p) ==
    DiceEnds(ts, p) \cup (IF TypeAt(ts, p) = TokenType.NUMBER THEN {p + 1} ELSE {})

(* (('+'|'-') term)*                                                       *)
RECURSIVE MoreTermsEnds(_, _)
MoreTermsEnds(ts, P) ==
    LET signed == {p \in P : TypeAt(ts, p) \in {TokenType.PLUS, TokenType.MINUS}}
        more == P \cup UNION {TermEnds(ts, p + 1) : p \in signed}
    IN IF more = P THEN P ELSE MoreTermsEnds(ts, more)

(* expression := term (('+'|'-') term)*, consumed up to END                *)
MatchesGrammar(ts) ==
    /\ ts # <<>>
    /\ ts[Len(ts)] = TokenType.EOF
    /\ (Len(ts) - 1) \in MoreTermsEnds(ts, TermEnds(ts, 0))

TypesOf(tokens) == [k \in 1..Len(tokens) |-> tokens[k].type]

(* s has a token sequence and it matches the grammar.                      *)
InLanguage(s) ==
    LET t == tokenize(s) IN t.ok /\ MatchesGrammar(TypesOf(t.tokens))

\* C4: parse(s) succeeds exactly when the token sequence of the normalized
\* string matches expression := term (('+'|'-') term)* up to END; every other
\* string fails with an error and yields no expression.
C4_AcceptsExactlyGrammar ==
    Parsed =>
        /\ parsed.ok <=> InLanguage(input)
        /\ parsed.ok => parsed.ast # None /\ phase = "parsed"
        /\ ~parsed.ok => parsed.ast = None /\ parsed.err # "" /\ phase = "rejected"
        /\ input \in ExampleInputs => ~parsed.ok

(* A complete expression followed by a leftover token is rejected.         *)
C4_Witness ==
    /\ phase = "rejected"
    /\ input = <<"2", "d", "6", "d", "4">>
    /\ parsed.err = "Unexpected token at end of expression"

(* The tokens of ts from position lo up to, not including, position hi,    *)
(* followed by an EOF token.                                               *)
TermTokens(ts, lo, hi) == SubSeq(ts, lo + 1, hi) \o <<Token(TokenType.EOF, "null")>>

IsSign(tok) == tok.type \in {TokenType.PLUS, TokenType.MINUS}

(* The terms of an accepted token sequence in source order: each with the  *)
(* sign in front of it (1 for the leading term) and its own tokens.        *)
RECURSIVE SplitTerms(_, _, _, _)
SplitTerms(ts, lo, p, sign) ==
    IF ts[p + 1].type = TokenType.EOF
    THEN <<[sign |-> sign, tokens |-> TermTokens(ts, lo, p)]>>
    ELSE IF IsSign(ts[p + 1])
    THEN <<[sign |-> sign, tokens |-> TermTokens(ts, lo, p)]>>
         \o SplitTerms(ts, p + 1, p + 1,
                       IF ts[p + 1].type = TokenType.PLUS THEN 1 ELSE -1)
    ELSE SplitTerms(ts, lo, p + 1, sign)

IsBareNumber(term) == Len(term.tokens) = 2 /\ term.tokens[1].type = TokenType.NUMBER

RECURSIVE SignedSum(_)
SignedSum(terms) ==
    IF terms = <<>> THEN 0
    ELSE (IF IsBareNumber(Head(terms)) THEN Head(terms).sign * Head(terms).tokens[1].value
          ELSE 0) + SignedSum(Tail(terms))

(* The dice group that each dice term yields when parsed by itself.        *)
DiceOfTerms(terms) ==
    LET diceTerms == SelectSeq(terms, LAMBDA t : ~IsBareNumber(t)) IN
    [k \in 1..Len(diceTerms) |-> parseTerm(diceTerms[k].tokens, 0).dice[1]]

\* C10: for every accepted notation the dice list holds the dice terms in
\* left-to-right source order and modifier is the signed sum of the bare-number
\* terms, each with the sign of the + or - in front of it (the leading term
\* positive): 2d6+3 gives 3, 2d6-2 gives -2, 2d6+1d4+5 gives two groups and 5.
C10_DiceOrderAndModifier ==
    phase = "parsed" =>
        LET terms == SplitTerms(tokenize(input).tokens, 0, 0, 1)
            ast == parsed.ast[1]
        IN /\ ast.dice = DiceOfTerms(terms)
           /\ ast.modifier = SignedSum(terms)
           /\ input = <<"2", "d", "6", "+", "3">> =>
                  ast.modifier = 3 /\ Len(ast.dice) = 1
           /\ input = <<"2", "d", "6", "-", "2">> =>
                  ast.modifier = -2 /\ Len(ast.dice) = 1
           /\ input = <<"2", "d", "6", "+", "1", "d", "4", "+", "5">> =>
                  /\ ast.modifier = 5
                  /\ Len(ast.dice) = 2
                  /\ ast.dice[1].sides = 6
                  /\ ast.dice[2].sides = 4

(* Two different dice groups around a subtracted number.                   *)
C10_Witness ==
    /\ phase = "parsed"
    /\ input = <<"2", "d", "6", "-", "3", "+", "1", "d", "4">>
    /\ parsed.ast[1].modifier = -3
    /\ Len(parsed.ast[1].dice) = 2

----------------------------------------------------------------------------
(* Properties of the selection phase and of reroll                         *)

(* i is before j in the stable ordering by value of type: descending for   *)
(* highest, ascending for lowest, the earlier-rolled first on equal values.*)
Precedes(rolls, type, i, j) ==
    \/ type = "highest" /\ rolls[i].value > rolls[j].value
    \/ type = "lowest" /\ rolls[i].value < rolls[j].value
    \/ rolls[i].value = rolls[j].value /\ i < j

DropGroups == {g \in 1..Len(stages) : stages[g].group.drop # None}

KeepGroups == {g \in 1..Len(stages) : stages[g].group.keep # None}

\* C5: a drop modifier {mode, count} applied to a group with n kept entries
\* marks exactly min(count, n) entries kept = false, dropped = true and leaves
\* the others untouched; the marked ones are the first in the stable ordering
\* by value (ascending for lowest, descending for highest, earlier-rolled first
\* on ties).  4d6dl1 gives 3 kept entries and 1 dropped entry with a minimum.
C5_DropMarksFirstInOrder ==
    Rolled =>
        /\ \A g \in DropGroups :
              LET before == stages[g].generated
                  after == stages[g].afterDrop
                  drop == stages[g].group.drop[1]
                  n == Cardinality(KeptSet(before))
                  marked == DroppedSet(after)
              IN /\ DroppedSet(before) = {}
                 /\ Len(after) = Len(before)
                 /\ marked \subseteq KeptSet(before)
                 /\ Cardinality(marked) = Min(drop.count, n)
                 /\ \A i \in Indices(before) :
                       after[i] = IF i \in marked
                                  THEN [before[i] EXCEPT !.kept = FALSE, !.dropped = TRUE]
                                  ELSE before[i]
                 /\ \A i \in marked : \A j \in KeptSet(before) \ marked :
                       Precedes(before, drop.type, i, j)
        /\ input = <<"4", "d", "6", "d", "l", "1">> =>
              LET rolls == result[1].rolls IN
              /\ Cardinality(KeptSet(rolls)) = 3
              /\ Cardinality(DroppedSet(rolls)) = 1
              /\ \A i \in DroppedSet(rolls) :
                    ~rolls[i].kept /\ \A j \in Indices(rolls) : rolls[i].value <= rolls[j].value

(* Drop lowest with two dice on the minimum: the earlier one is dropped,   *)
(* the later one stays.                                                    *)
C5_Witness ==
    /\ Rolled
    /\ \E g \in DropGroups :
          /\ stages[g].group.drop[1].type = "lowest"
          /\ \E i, j \in Indices(stages[g].afterDrop) :
                /\ i < j
                /\ stages[g].afterDrop[i].value = stages[g].afterDrop[j].value
                /\ stages[g].afterDrop[i].dropped
                /\ stages[g].afterDrop[j].kept
                /\ \E k \in Indices(stages[g].afterDrop) :
                      stages[g].afterDrop[k].value > stages[g].afterDrop[i].value

\* C6: a keep modifier {mode, count} applied to a group with n kept entries
\* leaves exactly min(count, n) entries kept, the first in the stable ordering
\* by value (descending for highest, ascending for lowest, first-rolled first
\* on ties); every other previously kept entry gets kept = false and is not
\* marked dropped.  2d20kh1 keeps one entry, the other has kept = false and
\* dropped = false.
C6_KeepRetainsFirstInOrder ==
    Rolled =>
        /\ \A g \in KeepGroups :
              LET before == stages[g].afterDrop
                  after == stages[g].rolls
                  keep == stages[g].group.keep[1]
                  n == Cardinality(KeptSet(before))
                  retained == KeptSet(after)
              IN /\ Len(after) = Len(before)
                 /\ retained \subseteq KeptSet(before)
                 /\ Cardinality(retained) = Min(keep.count, n)
                 /\ \A i \in Indices(before) :
                       after[i] = [before[i] EXCEPT !.kept = (i \in retained)]
                 /\ \A i \in KeptSet(before) \ retained : ~after[i].dropped
                 /\ \A i \in retained : \A j \in KeptSet(before) \ retained :
                       Precedes(before, keep.type, i, j)
        /\ input = <<"2", "d", "2", "0", "k", "h", "1">> =>
              LET rolls == result[1].rolls IN
              /\ Len(rolls) = 2
              /\ Cardinality(KeptSet(rolls)) = 1
              /\ \A i \in Indices(rolls) \ KeptSet(rolls) : ~rolls[i].dropped
              /\ \A i \in KeptSet(rolls) : \A j \in Indices(rolls) :
                    rolls[i].value >= rolls[j].value

(* 2d20kh1 with both dice on the same value: the first-rolled is kept.     *)
C6_Witness ==
    /\ Rolled
    /\ input = <<"2", "d", "2", "0", "k", "h", "1">>
    /\ result[1].rolls[1].value = result[1].rolls[2].value
    /\ result[1].rolls[1].kept
    /\ ~result[1].rolls[2].kept
    /\ ~result[1].rolls[2].dropped

C8_DroppedNotKept ==
    Rolled => \A i \in Indices(result[1].rolls) :
                  result[1].rolls[i].dropped => ~result[1].rolls[i].kept

(* Keep highest after drop lowest with all dice equal: the dropped entry   *)
(* is the first in the ordering of keep and still is not kept.             *)
C8_Witness ==
    /\ Rolled
    /\ \E g \in DropGroups \cap KeepGroups :
          /\ stages[g].group.keep[1].type = "highest"
          /\ stages[g].group.keep[1].count >= 1
          /\ \E i \in DroppedSet(stages[g].rolls) :
                /\ \A j \in Indices(stages[g].rolls) :
                      i # j => Precedes(stages[g].rolls, "highest", i, j)
                /\ ~stages[g].rolls[i].kept
          /\ KeptSet(stages[g].rolls) # {}

RerollGroups == {g \in 1..Len(stages) : stages[g].group.reroll # None}

InitialSet(rolls) == Indices(rolls) \ ExplodedSet(rolls)

(* The value that draw number d of the invocation gives for a die of the   *)
(* group.                                                                  *)
DrawValue(g, d) == rollDie(stages[g].group.sides, word(seed, d))

\* C9: in a group with reroll = N each of the count initial dice whose first
\* draw equals N is drawn exactly once more: the entry gets rerolled = true,
\* originalValue = N and the second draw as value, also when the second draw
\* equals N; a die whose first draw differs from N consumes exactly one draw
\* and carries no rerolled mark and no originalValue.
C9_RerollOnce ==
    Rolled =>
        \A g \in RerollGroups :
            LET rolls == stages[g].generated
                draws == stages[g].draws
                N == stages[g].group.reroll[1]
                start == IF g = 1 THEN 0 ELSE stages[g - 1].pos
            IN /\ Cardinality(InitialSet(rolls)) = stages[g].group.count
               /\ Len(draws) = Len(rolls)
               /\ \A i \in Indices(rolls) :
                     draws[i][1] = IF i = 1 THEN start
                                   ELSE draws[i - 1][Len(draws[i - 1])] + 1
               /\ rolls # <<>> =>
                     stages[g].pos = draws[Len(rolls)][Len(draws[Len(rolls)])] + 1
               /\ \A i \in InitialSet(rolls) :
                     IF DrawValue(g, draws[i][1]) = N
                     THEN /\ draws[i] = <<draws[i][1], draws[i][1] + 1>>
                          /\ rolls[i].rerolled
                          /\ rolls[i].originalValue = Some(N)
                          /\ rolls[i].value = DrawValue(g, draws[i][2])
                     ELSE /\ Len(draws[i]) = 1
                          /\ ~rolls[i].rerolled
                          /\ rolls[i].originalValue = None
                          /\ rolls[i].value = DrawValue(g, draws[i][1])

(* A rerolled die whose second draw is the reroll target again, next to a  *)
(* die that was not rerolled.                                              *)
C9_Witness ==
    /\ Rolled
    /\ \E g \in RerollGroups :
          /\ \E i \in InitialSet(stages[g].generated) :
                /\ stages[g].generated[i].rerolled
                /\ stages[g].generated[i].value = stages[g].group.reroll[1]
          /\ \E i \in InitialSet(stages[g].generated) :
                ~stages[g].generated[i].rerolled

----------------------------------------------------------------------------
(* Defaults, bounds, letter case and white space, and the tokenizer        *)

(* The decimal digits of n.                                                *)
RECURSIVE Decimal(_)
Decimal(n) ==
    IF n < 10 THEN <<Digits[n + 1]>>
    ELSE Decimal(n \div 10) \o <<Digits[(n % 10) + 1]>>

(* The characters a token is written with.                                 *)
Spelling(tok) ==
    CASE tok.type = TokenType.NUMBER -> Decimal(tok.value)
      [] tok.type = TokenType.D -> <<"d">>
      [] tok.type = TokenType.PLUS -> <<"+">>
      [] tok.type = TokenType.MINUS -> <<"-">>
      [] tok.type = TokenType.KEEP_HIGH -> <<"k", "h">>
      [] tok.type = TokenType.KEEP_LOW -> <<"k", "l">>
      [] tok.type = TokenType.DROP_HIGH -> <<"d", "h">>
      [] tok.type = TokenType.DROP_LOW -> <<"d", "l">>
      [] tok.type = TokenType.EXPLODE -> <<"!">>
      [] tok.type = TokenType.REROLL -> <<"r">>
      [] tok.type = TokenType.PERCENT -> <<"%">>
      [] OTHER -> <<>>

(* The notation with every omitted part written out: 1 in front of a d     *)
(* that no number precedes, 1 after a kh, kl, dh or dl that no number      *)
(* follows, 100 for %.  ts ends with EOF, i is the index of the token.     *)
RECURSIVE WrittenOut(_, _)
WrittenOut(ts, i) ==
    IF i > Len(ts) THEN <<>>
    ELSE LET t == ts[i].type
             before == IF i = 1 THEN TokenType.EOF ELSE ts[i - 1].type
             after == IF i = Len(ts) THEN TokenType.EOF ELSE ts[i + 1].type
             here == IF t = TokenType.D /\ before # TokenType.NUMBER
                     THEN <<"1", "d">>
                     ELSE IF t \in KeepDropTypes /\ after # TokenType.NUMBER
                     THEN Spelling(ts[i]) \o <<"1">>
                     ELSE IF t = TokenType.PERCENT THEN <<"1", "0", "0">>
                     ELSE Spelling(ts[i])
         IN here \o WrittenOut(ts, i + 1)

ModifierTypes == KeepDropTypes \cup {TokenType.EXPLODE, TokenType.REROLL}

\* C11: an accepted notation yields the same expression as the notation
\* with its omitted parts written out (1 as the count of a die, 1 as the
\* count of kh, kl, dh, dl, 100 for %), and the groups of a notation that
\* has no modifier have keep = null, drop = null, exploding = false and
\* reroll = null.
C11_Defaults ==
    (Parsed /\ parsed.ok) =>
        LET ts == tokenize(input).tokens
            full == parse(WrittenOut(ts, 1))
            dice == parsed.ast[1].dice
        IN /\ full.ok
           /\ full.ast = parsed.ast
           /\ (\A i \in 1..Len(ts) : ts[i].type \notin ModifierTypes) =>
                 \A g \in 1..Len(dice) :
                    /\ dice[g].keep = None
                    /\ dice[g].drop = None
                    /\ dice[g].exploding = FALSE
                    /\ dice[g].reroll = None

(* kl and dh without a number, a die without a count and a d%, in one      *)
(* notation.                                                               *)
C11_Witness ==
    /\ Parsed
    /\ input = <<"2", "d", "6", "k", "l", "+", "d", "%", "d", "h">>
    /\ WrittenOut(tokenize(input).tokens, 1)
          = <<"2", "d", "6", "k", "l", "1", "+", "1", "d", "1", "0", "0", "d", "h", "1">>
    /\ parsed.ok
    /\ parsed.ast[1].dice[1].keep = Some([type |-> "lowest", count |-> 1])
    /\ parsed.ast[1].dice[2].count = 1
    /\ parsed.ast[1].dice[2].sides = 100
    /\ parsed.ast[1].dice[2].drop = Some([type |-> "highest", count |-> 1])

\* C12: every dice group of an accepted notation has count >= 1 and
\* sides >= 1, and its keep and its drop, when present, have count >= 1.
C12_GroupBounds ==
    (Parsed /\ parsed.ok) =>
        \A g \in 1..Len(parsed.ast[1].dice) :
            LET group == parsed.ast[1].dice[g] IN
            /\ group.count >= 1
            /\ group.sides >= 1
            /\ group.keep # None => group.keep[1].count >= 1
            /\ group.drop # None => group.drop[1].count >= 1

(* The input in lower case with all white space removed.                   *)
LowerCase(c) ==
    IF c \in {"D", "K", "H", "L", "R", "X"}
    THEN CHOOSE l \in {"d", "k", "h", "l", "r", "x"} :
            <<c, l>> \in {<<"D", "d">>, <<"K", "k">>, <<"H", "h">>, <<"L", "l">>,
                          <<"R", "r">>, <<"X", "x">>}
    ELSE c

Canonical(s) ==
    LET kept == SelectSeq(s, LAMBDA c : c \notin {" ", "\t", "\n"}) IN
    [i \in 1..Len(kept) |-> LowerCase(kept[i])]

\* C13: parse of a string and parse of the string in lower case with all
\* its white space removed both fail or return equal expressions.
C13_CaseAndWhitespace ==
    Parsed =>
        LET canonical == parse(Canonical(input)) IN
        /\ canonical.ok = parsed.ok
        /\ canonical.ast = parsed.ast

(* An accepted notation with an upper-case letter and white space around   *)
(* and inside it.                                                          *)
C13_Witness ==
    /\ Parsed
    /\ input = <<" ", "2", "D", "6", " ", "+", "\t", "3", "\n">>
    /\ Canonical(input) = <<"2", "d", "6", "+", "3">>
    /\ parsed.ok
    /\ parsed.ast[1].dice[1].sides = 6
    /\ parsed.ast[1].modifier = 3

(* The scan the tokenizer is to make over the normalized string norm, from *)
(* the zero-based position p: the types of the tokens in order and the     *)
(* position of the first character that starts no token (-1 if none).      *)
KeywordPairs ==
    [kh |-> TokenType.KEEP_HIGH, kl |-> TokenType.KEEP_LOW,
     dh |-> TokenType.DROP_HIGH, dl |-> TokenType.DROP_LOW]

PairAt(norm, p) ==
    IF p + 2 > Len(norm) THEN ""
    ELSE CASE norm[p + 1] = "k" /\ norm[p + 2] = "h" -> "kh"
           [] norm[p + 1] = "k" /\ norm[p + 2] = "l" -> "kl"
           [] norm[p + 1] = "d" /\ norm[p + 2] = "h" -> "dh"
           [] norm[p + 1] = "d" /\ norm[p + 2] = "l" -> "dl"
           [] OTHER -> ""

SingleTypes ==
    {<<"d", TokenType.D>>, <<"+", TokenType.PLUS>>, <<"-", TokenType.MINUS>>,
     <<"!", TokenType.EXPLODE>>, <<"r", TokenType.REROLL>>, <<"%", TokenType.PERCENT>>}

(* The end of the run of digits that starts at p.                          *)
DigitRunEnd(norm, p) ==
    CHOOSE q \in (p + 1)..Len(norm) :
        /\ \A k \in (p + 1)..q : norm[k] \in {Digits[i] : i \in 1..10}
        /\ q = Len(norm) \/ norm[q + 1] \notin {Digits[i] : i \in 1..10}

RECURSIVE Lexemes(_, _, _)
Lexemes(norm, p, types) ==
    IF p >= Len(norm) THEN [types |-> types, bad |-> -1]
    ELSE IF norm[p + 1] \in {Digits[i] : i \in 1..10}
    THEN Lexemes(norm, DigitRunEnd(norm, p), Append(types, TokenType.NUMBER))
    ELSE IF PairAt(norm, p) # ""
    THEN Lexemes(norm, p + 2, Append(types, KeywordPairs[PairAt(norm, p)]))
    ELSE IF \E st \in SingleTypes : st[1] = norm[p + 1]
    THEN Lexemes(norm, p + 1,
                 Append(types, (CHOOSE st \in SingleTypes : st[1] = norm[p + 1])[2]))
    ELSE [types |-> types, bad |-> p]

\* C14: tokenize returns the tokens of the left-to-right scan (digit run,
\* then kh, kl, dh, dl, then d + - ! r %) followed by one END token and no
\* other; it fails exactly when the scan reaches a character that starts
\* none of these, and the error carries that character and its zero-based
\* position in the lower-cased string without white space.
C14_TokenizeScan ==
    Parsed =>
        LET t == tokenize(input)
            norm == Canonical(input)
            lex == Lexemes(norm, 0, <<>>)
        IN /\ t.ok <=> lex.bad = -1
           /\ t.ok =>
                 /\ TypesOf(t.tokens) = Append(lex.types, TokenType.EOF)
                 /\ \A i \in 1..Len(t.tokens) :
                       t.tokens[i].type = TokenType.EOF <=> i = Len(t.tokens)
           /\ ~t.ok =>
                 /\ t.pos = lex.bad
                 /\ t.char = norm[lex.bad + 1]
                 /\ trim(input) # <<>> => parsed.err = "Unexpected character"

(* A lone k after white space that the position does not count.            *)
C14_Witness ==
    /\ phase = "rejected"
    /\ input = <<"1", " ", "K">>
    /\ parsed.err = "Unexpected character"
    /\ tokenize(input).char = "k"
    /\ tokenize(input).pos = 1

----------------------------------------------------------------------------
(* Independence of the invocations of executeRoll                          *)

----------------------------------------------------------------------------
(* Properties of the application                                           *)

RollCallers == {"handleSubmit", "diceButtonClick", "presetClick"}

ControlsDisabled(a) == a.buttonsDisabled /\ a.formDisabled

ControlsEnabled(a) == ~a.buttonsDisabled /\ ~a.formDisabled

\* C16: at most one roll is in progress, and a call of roll that arrives
\* while isRolling is true returns null, takes no step (no parse, no roll,
\* no sound, no animation, nothing added to the history) and leaves
\* isRolling and the disabled state of the controls as they were.
C16_OneRollAtATime ==
    /\ Len(app.pending) <= 1
    /\ (last.op \in RollCallers /\ last.pre.isRolling) =>
          /\ last.ret = "null"
          /\ last.effects = <<>>
          /\ app.sounds = last.pre.sounds
          /\ app.pending = last.pre.pending
          /\ app.storage = last.pre.storage
          /\ app.isRolling
          /\ app.buttonsDisabled = last.pre.buttonsDisabled
          /\ app.formDisabled = last.pre.formDisabled

(* A preset clicked during the animation of a roll.                        *)
C16_Witness ==
    /\ last.op = "presetClick"
    /\ last.pre.isRolling
    /\ last.ret = "null"
    /\ Len(app.pending) = 1
    /\ ControlsDisabled(app)

\* C17: while a roll is in progress (isRolling is true, its animation is
\* pending) the quick-dice buttons and the form are disabled, also when a
\* quick-dice button started it; a rejected roll ends at once and every
\* started roll ends eventually, with isRolling = false and the controls
\* enabled.
C17_DisabledWhileRolling ==
    /\ []((app.isRolling \/ app.pending # <<>>) => ControlsDisabled(app))
    /\ []((last.op \in RollCallers /\ last.ret = "rejected") =>
             (~app.isRolling /\ ControlsEnabled(app)))
    /\ (app.isRolling ~> (~app.isRolling /\ ControlsEnabled(app)))

(* The roll a quick-dice button started is in progress.                    *)
C17_Witness ==
    /\ last.op = "diceButtonClick"
    /\ last.ret = "pending"
    /\ app.isRolling
    /\ app.pending[1].awaitedBy = "button"
    /\ ControlsDisabled(app)

(* The steps of roll that write to the state of the application.           *)
StateChanging == {"setRollingState", "showError", "play", "animateRoll", "addRoll"}

\* C18: a call of roll with a notation that parse rejects shows an error
\* message and leaves the application as it was (no sound, no animation,
\* history, isRolling and controls unchanged), and none of its steps before
\* the parse that fails writes to the state of the application.
C18_RejectedRollAltersNothing ==
    (last.op \in RollCallers /\ last.ret = "rejected") =>
        /\ app.errorMessage # ""
        /\ app.sounds = last.pre.sounds
        /\ app.pending = last.pre.pending
        /\ app.storage = last.pre.storage
        /\ app.isRolling = last.pre.isRolling
        /\ app.buttonsDisabled = last.pre.buttonsDisabled
        /\ app.formDisabled = last.pre.formDisabled
        /\ \A k \in 1..Len(last.effects) :
              last.effects[k] = "parse" =>
                  \A j \in 1..(k - 1) : last.effects[j] \notin StateChanging

Newest(n, seq) == [i \in 1..Min(n, Len(seq)) |-> seq[Len(seq) + 1 - i]]

\* C19: the stored history has at most 50 entries and is the list of the
\* most recent min(n, 50) results added since the last clearHistory, newest
\* first; addRoll(null) changes nothing and clearHistory leaves it empty.
C19_HistoryIsRecentResults ==
    /\ Len(getHistory(app)) <= MAX_HISTORY_LENGTH
    /\ getHistory(app) = Newest(MAX_HISTORY_LENGTH, added)
    /\ last.op = "addRoll(null)" => app = last.pre
    /\ last.op = "clearHistory" => getHistory(app) = <<>>

----------------------------------------------------------------------------
(* The random source                                                       *)

\* C21: for every sides >= 1, randomInt(1, sides) maps the raw words onto
\* [1, sides] and, once each of the 2^WordBits words has been drawn exactly
\* once, every face has been produced by the same number of words.
C21_Unbiased ==
    /\ \A w \in 0..(tally.next - 1) : rollDie(tally.sides, w) \in 1..tally.sides
    /\ tally.next = 2^WordBits =>
          \A face, other \in 1..tally.sides : tally.count[face] = tally.count[other]

----------------------------------------------------------------------------
(* Repeated modifiers                                                      *)

KeepTypes == {TokenType.KEEP_HIGH, TokenType.KEEP_LOW}

DropTypes == {TokenType.DROP_HIGH, TokenType.DROP_LOW}

SelectionMode(type) ==
    IF type \in {TokenType.KEEP_HIGH, TokenType.DROP_HIGH} THEN "highest" ELSE "lowest"

(* The positions in the token sequence ts of the tokens of the given types. *)
Occurrences(ts, types) == {p \in 1..Len(ts) : ts[p].type \in types}

Latest(P) == CHOOSE p \in P : \A q \in P : q <= p

(* What the last keyword of the given types says: its mode with the number *)
(* that follows it, 1 when none follows; None when there is no such        *)
(* keyword.                                                                *)
LastSelection(ts, types) ==
    LET occ == Occurrences(ts, types) IN
    IF occ = {} THEN None
    ELSE LET p == Latest(occ) IN
         Some([type |-> SelectionMode(ts[p].type),
               count |-> IF ts[p + 1].type = TokenType.NUMBER THEN ts[p + 1].value
                         ELSE 1])

LastReroll(ts) ==
    LET occ == Occurrences(ts, {TokenType.REROLL}) IN
    IF occ = {} THEN None ELSE Some(ts[Latest(occ) + 1].value)

\* C22: a dice term with repeated modifiers is accepted; its keep slot holds
\* the last of its kh/kl modifiers (mode and count together: kh2kl1 keeps
\* lowest 1), its drop slot the last of its dh/dl modifiers, reroll the last
\* r N, and exploding is true iff a ! occurs; so each slot depends on the
\* modifiers of its own kind only.
C22_LastModifierWins ==
    (Parsed /\ input \in RepeatedInputs) =>
        /\ parsed.ok
        /\ Len(parsed.ast[1].dice) = 1
        /\ LET ts == tokenize(input).tokens
               group == parsed.ast[1].dice[1]
           IN /\ group.keep = LastSelection(ts, KeepTypes)
              /\ group.drop = LastSelection(ts, DropTypes)
              /\ group.reroll = LastReroll(ts)
              /\ group.exploding <=> Occurrences(ts, {TokenType.EXPLODE}) # {}
              /\ group.count = 2 /\ group.sides = 6
        /\ input = <<"2", "d", "6", "k", "h", "2", "k", "l", "1">> =>
              parsed.ast[1].dice[1].keep = Some([type |-> "lowest", count |-> 1])

(* kh2, then a modifier of another slot, then kl1: keep lowest 1.          *)
C22_Witness ==
    /\ phase = "parsed"
    /\ input = <<"2", "d", "6", "k", "h", "2", "r", "2", "k", "l", "1">>
    /\ parsed.ast[1].dice[1].keep = Some([type |-> "lowest", count |-> 1])
    /\ parsed.ast[1].dice[1].reroll = Some(2)
    /\ parsed.ast[1].dice[1].drop = None

----------------------------------------------------------------------------
(* The entries of a group in the order of their generation                 *)

(* The number of entries marked exploded among the first i of rolls.       *)
ExplodedUpTo(rolls, i) == Cardinality({k \in 1..i : rolls[k].exploded})

\* C23: among the entries generated for one dice group exactly count are not
\* marked exploded; every entry marked exploded comes directly after an entry
\* of the group whose value is sides; a group without exploding has exactly
\* count entries, none marked exploded; in a group with exploding every entry
\* whose value is sides is directly followed by an exploded entry unless 100
\* explosion rolls have been made in the group by then.
C23_ExplosionStructure ==
    Rolled =>
        \A g \in 1..Len(stages) :
            LET rolls == stages[g].generated
                group == stages[g].group
            IN /\ Cardinality(InitialSet(rolls)) = group.count
               /\ \A i \in ExplodedSet(rolls) :
                     i > 1 /\ rolls[i - 1].value = group.sides
               /\ ~group.exploding =>
                     Len(rolls) = group.count /\ ExplodedSet(rolls) = {}
               /\ group.exploding =>
                     \A i \in Indices(rolls) :
                        (rolls[i].value = group.sides
                            /\ ExplodedUpTo(rolls, i) < maxExplosions) =>
                                i < Len(rolls) /\ rolls[i + 1].exploded

(* A die that did not explode before a die with a chain of two explosions, *)
(* the cap not reached.                                                    *)
C23_Witness ==
    /\ Rolled
    /\ \E g \in 1..Len(stages) :
          LET rolls == stages[g].generated IN
          /\ stages[g].group.exploding
          /\ stages[g].group.count >= 2
          /\ Cardinality(ExplodedSet(rolls)) < maxExplosions
          /\ rolls[1].value # stages[g].group.sides
          /\ \E i \in Indices(rolls) :
                /\ i + 2 <= Len(rolls)
                /\ ~rolls[i].exploded
                /\ rolls[i + 1].exploded
                /\ rolls[i + 2].exploded

(* The position in the draw stream at which group g starts.               *)
GroupStart(g) == IF g = 1 THEN 0 ELSE stages[g - 1].pos

(* The number of entries of the groups before group g.                     *)
RECURSIVE Offset(_)
Offset(g) == IF g = 1 THEN 0 ELSE Offset(g - 1) + Len(stages[g - 1].generated)

LastDraw(d) == d[Len(d)]

\* C24: result.rolls is the concatenation, in the order of the dice groups of
\* the expression, of the entries of each group in the order they were
\* generated, each exploded entry directly after the entry that triggered it;
\* the draws of the invocation are consumed one after the other in that
\* order, the value of an entry being its last draw; keep and drop change
\* the kept and dropped flags only, never the position, the value or the
\* number of the entries.
C24_GenerationOrder ==
    Rolled =>
        /\ Len(result[1].rolls) = Offset(Len(stages) + 1)
        /\ \A g \in 1..Len(stages) :
              LET rolls == stages[g].generated
                  draws == stages[g].draws
                  final == stages[g].rolls
              IN /\ Len(draws) = Len(rolls)
                 /\ Len(final) = Len(rolls)
                 /\ Len(stages[g].afterDrop) = Len(rolls)
                 /\ stages[g].pos = IF rolls = <<>> THEN GroupStart(g)
                                    ELSE LastDraw(draws[Len(rolls)]) + 1
                 /\ \A i \in Indices(rolls) :
                       /\ result[1].rolls[Offset(g) + i] = final[i]
                       /\ final[i] = [rolls[i] EXCEPT !.kept = final[i].kept,
                                                      !.dropped = final[i].dropped]
                       /\ draws[i] # <<>>
                       /\ draws[i][1] = IF i = 1 THEN GroupStart(g)
                                        ELSE LastDraw(draws[i - 1]) + 1
                       /\ \A k \in 2..Len(draws[i]) : draws[i][k] = draws[i][k - 1] + 1
                       /\ rolls[i].value = DrawValue(g, LastDraw(draws[i]))
                       /\ rolls[i].exploded =>
                             i > 1 /\ rolls[i - 1].value = stages[g].group.sides

(* Two groups: in the first an entry that is not kept before one that is, *)
(* in the second an explosion, which ends the list.                        *)
C24_Witness ==
    /\ Rolled
    /\ Len(stages) = 2
    /\ ~result[1].rolls[1].kept
    /\ result[1].rolls[2].kept
    /\ GroupStart(2) = 3
    /\ ExplodedSet(stages[2].generated) # {}
    /\ result[1].rolls[Len(result[1].rolls)].exploded

----------------------------------------------------------------------------
(* The central roll flow                                                   *)

RollSteps == <<"parse", "executeRoll", "play", "animateRoll", "addRoll">>

(* Those of the steps taken that are steps of the roll flow, in the order  *)
(* they were taken.                                                        *)
FlowSteps(effects) ==
    SelectSeq(effects, LAMBDA e : \E k \in 1..Len(RollSteps) : RollSteps[k] = e)

(* The notation the handler passed to roll.                                *)
Passed(call) == IF call.op = "handleSubmit" THEN trim(call.arg) ELSE call.arg

(* How many entries of the history are the result number id.               *)
TimesInHistory(a, id) ==
    Cardinality({i \in 1..Len(getHistory(a)) : getHistory(a)[i].id = id})

PendingIds(a) == {a.pending[i].result.id : i \in 1..Len(a.pending)}

RollFlow ==
    /\ \A id \in 1..(app.nextId - 1) :
          TimesInHistory(app, id) = IF id \in PendingIds(app) THEN 0 ELSE 1
    /\ Len(getHistory(app)) + Len(app.pending) = app.nextId - 1
    /\ (last.op \in RollCallers /\ last.ret = "pending") =>
          /\ FlowSteps(last.effects) = SubSeq(RollSteps, 1, 4)
          /\ getHistory(app) = getHistory(last.pre)
          /\ app.pending = Append(last.pre.pending, app.pending[Len(app.pending)])
          /\ app.pending[Len(app.pending)].result.id = last.pre.nextId
          /\ app.pending[Len(app.pending)].result.input = Passed(last)
          /\ app.sounds = last.pre.sounds + 1
    /\ (last.op \in RollCallers /\ last.ret # "pending") =>
          /\ FlowSteps(last.effects) \in {<<>>, <<"parse">>}
          /\ getHistory(app) = getHistory(last.pre)
          /\ app.pending = last.pre.pending
          /\ app.nextId = last.pre.nextId
    /\ last.op = "resumeRoll" =>
          /\ FlowSteps(last.effects) = <<"addRoll">>
          /\ Len(getHistory(app)) = Len(getHistory(last.pre)) + 1
          /\ Tail(getHistory(app)) = getHistory(last.pre)
          /\ getHistory(app)[1].id \in PendingIds(last.pre)
          /\ getHistory(app)[1].id \notin PendingIds(app)
          /\ getHistory(app)[1].input = last.arg

----------------------------------------------------------------------------
(* The audio manager                                                       *)

(* The value stored under the key of the audio manager, None when absent.  *)
StoredEnabled(a) == storageGet(a, STORAGE_KEY)

AudioMethods == {"init", "play", "toggle"}

----------------------------------------------------------------------------
(* The notation form                                                       *)

\* C27: after a submission of the notation form whose notation roll rejects,
\* the typed text is still in the input field and the error message is
\* displayed; the field is cleared only when the roll was started.
C27_InputKeptOnRejection ==
    last.op = "handleSubmit" =>
        /\ last.ret = "rejected" =>
              app.inputValue = last.arg /\ app.errorMessage # ""
        /\ app.inputValue # last.arg => last.ret = "pending"

----------------------------------------------------------------------------
(* The sign in front of a dice term                                        *)

(* The token at zero-based position p of ts starts a dice term.            *)
StartsDice(ts, p) ==
    \/ TypeAt(TypesOf(ts), p) = TokenType.D
    \/ /\ TypeAt(TypesOf(ts), p) = TokenType.NUMBER
       /\ TypeAt(TypesOf(ts), p + 1) = TokenType.D

(* ts with a plus sign in the place of every minus sign that stands in     *)
(* front of a dice term.                                                   *)
PlusBeforeDice(ts) ==
    [k \in 1..Len(ts) |->
        IF ts[k].type = TokenType.MINUS /\ StartsDice(ts, k)
        THEN Token(TokenType.PLUS, "+") ELSE ts[k]]

(* The sum over the groups 1..g of the kept values of each group.          *)
RECURSIVE GroupsKeptSum(_)
GroupsKeptSum(g) ==
    IF g = 0 THEN 0 ELSE Add(GroupsKeptSum(g - 1), KeptValueSum(stages[g].rolls))

\* C28: the sign in front of a dice term is ignored: the expression is the
\* one parsed with + in the place of every - that stands before a dice term
\* (parse of 2d6-1d4 equals parse of 2d6+1d4), the kept values of every group
\* are added to the subtotal, and the modifier is the signed sum of the bare
\* numbers alone.
C28_SignBeforeDiceIgnored ==
    /\ phase \in {"parsed", "rolled"} =>
          LET ts == tokenize(input).tokens IN
          /\ parsed = parseExpression(PlusBeforeDice(ts))
          /\ parsed.ast[1].modifier = SignedSum(SplitTerms(ts, 0, 0, 1))
          /\ Len(parsed.ast[1].dice) =
                Cardinality({p \in 0..(Len(ts) - 1) :
                                /\ StartsDice(ts, p)
                                /\ (p = 0 \/ IsSign(ts[p]))})
    /\ Rolled =>
          /\ result[1].subtotal = GroupsKeptSum(Len(stages))
          /\ result[1].total = result[1].subtotal + parsed.ast[1].modifier
    /\ input = <<"2", "d", "6", "-", "1", "d", "4">> =>
          parsed = parse(<<"2", "d", "6", "+", "1", "d", "4">>)

(* 2d6-1d4-3: the d4 counts in the subtotal, the 3 is subtracted.          *)
C28_Witness ==
    /\ Rolled
    /\ input = <<"2", "d", "6", "-", "1", "d", "4", "-", "3">>
    /\ Len(stages) = 2
    /\ stages[2].rolls[1].value = 3
    /\ result[1].subtotal = stages[1].rolls[1].value + stages[1].rolls[2].value + 3
    /\ result[1].total = result[1].subtotal - 3

----------------------------------------------------------------------------
(* Reroll together with exploding                                          *)

RerollExplodeGroups == {g \in RerollGroups : stages[g].group.exploding}

(* The entry i of rolls is directly followed by an exploded entry.         *)
Explodes(rolls, i) == i < Len(rolls) /\ rolls[i + 1].exploded

\* C29: in a group with reroll and exploding, a die explodes exactly when
\* the value it has after the reroll equals sides (and the cap of 100 is not
\* reached): a die whose first draw is sides and that is rerolled to a lower
\* value does not explode, a die rerolled to sides does; an exploded entry is
\* never rerolled: it consumes one draw and carries neither rerolled nor
\* originalValue, also when its value is the reroll target.
C29_ExplodeAfterReroll ==
    Rolled =>
        \A g \in RerollExplodeGroups :
            LET rolls == stages[g].generated
                draws == stages[g].draws
                sides == stages[g].group.sides
            IN /\ \A i \in InitialSet(rolls) :
                     /\ Explodes(rolls, i) <=>
                           /\ rolls[i].value = sides
                           /\ ExplodedUpTo(rolls, i) < maxExplosions
                     /\ (DrawValue(g, draws[i][1]) = sides /\ rolls[i].rerolled
                            /\ rolls[i].value < sides) => ~Explodes(rolls, i)
                     /\ (rolls[i].rerolled /\ rolls[i].value = sides
                            /\ ExplodedUpTo(rolls, i) < maxExplosions) => Explodes(rolls, i)
               /\ \A i \in ExplodedSet(rolls) :
                     /\ ~rolls[i].rerolled
                     /\ rolls[i].originalValue = None
                     /\ Len(draws[i]) = 1
                     /\ rolls[i].value = DrawValue(g, draws[i][1])

(* 2d2r2!+2d2r1!: in the first group a die that showed 2 and was rerolled  *)
(* to 1 without exploding and a die rerolled to 2 that exploded; in the    *)
(* second group an exploded entry that shows the reroll target.            *)
C29_Witness ==
    /\ Rolled
    /\ Len(stages) = 2
    /\ RerollExplodeGroups = {1, 2}
    /\ LET rolls == stages[1].generated IN
       /\ stages[1].group.reroll = Some(stages[1].group.sides)
       /\ \E i \in InitialSet(rolls) :
             /\ rolls[i].originalValue = Some(stages[1].group.sides)
             /\ rolls[i].value < stages[1].group.sides
             /\ ~Explodes(rolls, i)
       /\ \E i \in InitialSet(rolls) :
             /\ rolls[i].rerolled
             /\ rolls[i].value = stages[1].group.sides
             /\ Explodes(rolls, i)
    /\ \E i \in ExplodedSet(stages[2].generated) :
          /\ Some(stages[2].generated[i].value) = stages[2].group.reroll
          /\ ~stages[2].generated[i].rerolled

----------------------------------------------------------------------------
(* Keep and drop with explosions and with several groups                   *)

====
